---- MODULE Spec2Model ----
(***************************************************************************)
(* A model of the fairness tracker's state-sharing fabric (venk8/fair):    *)
(* the aggregation store (pkg/state/store), the broadcast hub              *)
(* (pkg/broadcast), the Sync stream handler of the state service           *)
(* (pkg/state), and the rotation of the local tracker (pkg/tracker).       *)
(*                                                                         *)
(* Probabilities are float64 in the source.  They are modelled in fixed   *)
(* point: the number n stands for n / One, so One stands for 1.0.  NaN is  *)
(* kept as a value of its own, with the IEEE-754 rules Go follows: a sum   *)
(* with a NaN operand is NaN and every ordered comparison with NaN is      *)
(* false.  Infinite deltas behave like finite deltas larger than One (the  *)
(* stored probability is never infinite), so they are not kept apart.      *)
(***************************************************************************)
EXTENDS Integers, Sequences, FiniteSets, TLC

\* ------------------------------------------------------------------ bounds
MaxSeed == 1
MaxRow == 0
MaxCol == 1
MaxTs == 1
MaxOps == 4
MaxNow == 10
MaxClient == 2
SendCap == 1
OrderCap == 2
MaxMsg == 3
MaxUnreg == 2
MaxReq == 2
InCap == 1
MaxMutator == 2
MaxReport == 2
MaxConnect == 2
MaxProduce == 5
MaxCall == 3
MaxListed == 2
MaxGo == 3
MaxLockOps == 4
MaxDeltas == 3
MaxRegister == 1

\* ------------------------------------------------- constants of the program
\* 1.0 in fixed point (the upper clamp of ApplyDelta)
One == 2
\* the seed window and the eviction TTL (3 x the window), in clock units
WindowMs == 2
EvictionTTLMs == 6
\* the probability a reported failure adds (Pi), in fixed point
Pi == 1

Seeds == 0..MaxSeed
Rows == 0..MaxRow
Cols == 0..MaxCol
Timestamps == 0..MaxTs
Keys == Seeds \X Rows \X Cols

\* ------------------------------------------------------------------ float64
Num(n) == [nan |-> FALSE, v |-> n]
NaN == [nan |-> TRUE, v |-> 0]
FAdd(a, b) == IF a.nan \/ b.nan THEN NaN ELSE Num(a.v + b.v)
FLt(a, b) == ~a.nan /\ ~b.nan /\ a.v < b.v
FZero == Num(0)
FOne == Num(One)

\* The deltas a stream may carry: below -1.0, small negative, small
\* positive, above +1.0, and NaN.
DeltaProbs == {Num(0 - (One + 1)), Num(0 - 1), Num(1), Num(One + 1), NaN}

ClientIds == 1..MaxClient

\* The deltas of the goroutines that run the store's calls under its lock:
\* one that the clamp leaves alone and one that it cuts
LockDeltaProbs == {Num(1), Num(One + 1)}

VARIABLES
  \* --- aggregation store
  buckets,     \* InMemoryStore.buckets: seed -> row -> col -> bucket
  call,        \* the last store call: its arguments and what it returned
  lastRetTs,   \* per key, the timestamp the last ApplyDelta on it returned
  nOps,        \* number of store calls made
  mu,          \* InMemoryStore.mu: the goroutine holding the write lock (0: none)
               \* and the goroutines holding the read lock
  stCall,      \* per goroutine, the store call it is inside, statement by statement
  replica,     \* two stores that are sent the same deltas for one key, each in
               \* an order of its own: the key, the deltas, and per store its
               \* map, the deltas applied, and whether a clamp has cut a sum
  \* --- broadcast hub
  clients,     \* Hub.clients: the set of registered client records
  Send,        \* per client record, its Send channel: made, queue, closed
  register,    \* client records whose Register call is blocked on h.register
  unregister,  \* client records of Unregister calls blocked on h.unregister
  broadcast,   \* Broadcast calls blocked on h.broadcast: [from, msg]
  hubPc,       \* Hub.Run: "select" or "range" (inside the broadcast loop)
  message,     \* Hub.Run: the message of the broadcast case
  todo,        \* Hub.Run: clients the range loop has still to visit
  closes,      \* per client record, how often close(client.Send) ran
  panic,       \* the runtime panic that ended the process, or "none"
  nMsg,        \* number of Broadcast calls made by hub users
  dropped,     \* client records the broadcast loop dropped as slow
  unregs,      \* per client record, the Unregister calls the loop has handled
  \* --- state service: one Sync call per stream, the stream's client record
  \*     carrying the stream's id
  syncPc,      \* Sync: where the handler of each stream stands
  req,         \* Sync: the deltas of the DeltaUpdate being processed, and its seed
  resp,        \* Sync: the full-state response about to be sent
  inbound,     \* per stream, the requests sent by the peer and not yet received
  ctxDone,     \* per stream, whether stream.Context() is done
  senderPc,    \* the sender goroutine of each stream
  nReq,        \* number of requests the peers have sent
  \* --- tracker
  now,         \* the clock, in clock units (clock.Now().UnixMilli())
  main,        \* seed of ft.mainStructure
  secondary,   \* seed of ft.secondaryStructure
  nextFire,    \* the ticker: the time of its next tick
  tickerC,     \* the ticker: whether a tick is waiting in ticker.C()
  stopRotation, \* ft.stopRotation: "open" or "closed"
  rotPc,       \* the rotation goroutine: "select", "lock" or "stopped"
  rotSeed,     \* the rotation goroutine: the seed it computed
  mut,         \* per caller, the RegisterRequest/ReportOutcome call it is in
  mainStructure,      \* ft.mainStructure: the object and the calls made on it
  secondaryStructure, \* ft.secondaryStructure: the object and the calls made on it
  nObj,        \* number of structures created so far
  nCall,       \* number of RegisterRequest/ReportOutcome calls begun so far
  secondarySince, \* the value of nCall when the secondary structure was installed
  incoming,    \* the response the state client hands to onStateUpdate, if any
  \* --- the trackers of the fabric: tracker t talks on stream t
  structs,     \* per tracker, the probability of each (seed, row, col) bucket
  sendCh,      \* per tracker, the state client's outbound queue
  nRep,        \* number of outcomes reported to the trackers
  httpReq,     \* per handler goroutine, the /report request it handles or has
               \* handled: the request, what Report made of it, the status written
  reportedAt,  \* the trackers of the fabric on which a failure has been reported
  regResult,   \* per tracker of the fabric, the response to its last /register
  svcStop,     \* main of the state service: "none", "stopping" (in GracefulStop)
               \* or "exited"
  lastRecv,    \* per stream, for each bucket, the bucket of the last response
               \* the stream's sender goroutine delivered to the peer
  \* --- the state client of tracker 1
  runPc,       \* Client.run: "none", "loop", "connecting", "streaming", "backoff", "closed"
  ctxCancelled, \* whether c.ctx is done
  gen,         \* number of streams established so far; the last is the current one
  stream,      \* per stream: its state, its goroutines, its errCh, what was sent on it
  stopPc,      \* Client.Stop: "none", "waiting" (in wg.Wait) or "returned"
  nProd        \* number of requests the tracker handed to the client

lockVars == <<mu, stCall>>
storeCalls == <<call, lastRetTs, nOps, lockVars, replica>>
storeVars == <<buckets, storeCalls>>
hubVars == <<clients, Send, register, unregister, broadcast, hubPc, message, todo,
             closes, panic, nMsg, dropped, unregs>>
svcVars == <<syncPc, req, resp, inbound, ctxDone, senderPc, nReq>>
structureVars == <<mainStructure, secondaryStructure, nObj, nCall, secondarySince, incoming>>
rotationVars == <<now, main, secondary, nextFire, tickerC, stopRotation, rotPc,
                  rotSeed, mut, structureVars>>
fabricVars == <<structs, sendCh, nRep>>
clientVars == <<runPc, ctxCancelled, gen, stream, stopPc, nProd>>
httpVars == <<httpReq, reportedAt, regResult, lastRecv, svcStop>>
trackerVars == <<rotationVars, fabricVars, clientVars, httpVars>>
vars == <<storeVars, hubVars, svcVars, trackerVars>>
notStore == <<hubVars, svcVars, trackerVars>>
notHub == <<storeVars, svcVars, trackerVars>>

\* ------------------------------------------------------------------- maps
EmptyMap == <<>>
MapPut(m, k, v) == [x \in (DOMAIN m) \cup {k} |-> IF x = k THEN v ELSE m[x]]
MapDel(m, ks) == [x \in (DOMAIN m) \ ks |-> m[x]]

\* ------------------------------------------------------- aggregation store
NewBucket(rowID, colID) ==
  [RowId |-> rowID, ColId |-> colID, Prob |-> FZero, LastUpdateTimeMs |-> 0]

ClampProbNoUpper(p) == IF FLt(p, FZero) THEN FZero ELSE p
ClampProb(p) == IF FLt(p, FZero) THEN FZero ELSE IF FLt(FOne, p) THEN FOne ELSE p

MaxTimestampLastWins(old, ts) == ts
MaxTimestamp(old, ts) == IF ts > old THEN ts ELSE old

HasBucket(b, seed, rowID, colID) ==
  /\ seed \in DOMAIN b
  /\ rowID \in DOMAIN b[seed]
  /\ colID \in DOMAIN b[seed][rowID]

\* last-writer-wins on the probability in place of the addition
AggregateBucketLastWriterWins(b, seed, rowID, colID, deltaProb, timestampMs) ==
  LET bucket == IF HasBucket(b, seed, rowID, colID)
                THEN b[seed][rowID][colID]
                ELSE NewBucket(rowID, colID)
  IN [bucket EXCEPT
        !.Prob = ClampProb(deltaProb),
        !.LastUpdateTimeMs = MaxTimestamp(bucket.LastUpdateTimeMs, timestampMs)]

\* The bucket ApplyDelta leaves at (seed, rowID, colID)
AggregateBucket(b, seed, rowID, colID, deltaProb, timestampMs) ==
  LET bucket == IF HasBucket(b, seed, rowID, colID)
                THEN b[seed][rowID][colID]
                ELSE NewBucket(rowID, colID)
  IN [bucket EXCEPT
        !.Prob = ClampProb(FAdd(bucket.Prob, deltaProb)),
        !.LastUpdateTimeMs = MaxTimestamp(bucket.LastUpdateTimeMs, timestampMs)]

\* The map ApplyDelta leaves: intermediate maps are created when missing
PutBucket(b, seed, rowID, bucket) ==
  LET m1 == IF seed \in DOMAIN b THEN b ELSE MapPut(b, seed, EmptyMap)
      m2 == IF rowID \in DOMAIN m1[seed]
            THEN m1
            ELSE MapPut(m1, seed, MapPut(m1[seed], rowID, EmptyMap))
  IN MapPut(m2, seed,
       MapPut(m2[seed], rowID, MapPut(m2[seed][rowID], bucket.ColId, bucket)))

\* ApplyDelta under the write lock: what it returns (a copy of the bucket) ...
ApplyDeltaResult(b, seed, rowID, colID, deltaProb, timestampMs) ==
  AggregateBucket(b, seed, rowID, colID, deltaProb, timestampMs)

\* ... and what it does to the store
ApplyDelta(seed, rowID, colID, deltaProb, timestampMs) ==
  buckets' = PutBucket(buckets, seed, rowID,
               AggregateBucket(buckets, seed, rowID, colID, deltaProb, timestampMs))

\* Every bucket under a seed, as a set
SeedBuckets(b, seed) ==
  IF seed \in DOMAIN b
  THEN {b[seed][r][c] : <<r, c>> \in {rc \in Rows \X Cols :
                           rc[1] \in DOMAIN b[seed] /\ rc[2] \in DOMAIN b[seed][rc[1]]}}
  ELSE {}

\* The slices GetSeed may return under the read lock: one copy of each
\* bucket, in the order the map iteration happens to take
GetSeedResults(b, seed) ==
  LET S == SeedBuckets(b, seed)
  IN {q \in [1..Cardinality(S) -> S] : \A i, j \in 1..Cardinality(S) : q[i] = q[j] => i = j}

\* a GetSeed that makes the seed's map when it is missing
GetSeedCreatesSeed(seed) ==
  buckets' = IF seed \in DOMAIN buckets THEN buckets ELSE MapPut(buckets, seed, EmptyMap)

\* GetSeed leaves the store as it is
GetSeed(seed) == buckets' = buckets

\* an eviction that deletes one key per call, the least one below seed
EvictedMapLeastOnly(b, seed) ==
  LET below == {sKey \in DOMAIN b : sKey < seed}
  IN MapDel(b, {sKey \in below : \A o \in below : sKey <= o})
EvictedMapAtOrBelow(b, seed) == MapDel(b, {sKey \in DOMAIN b : sKey <= seed})
EvictedMap(b, seed) == MapDel(b, {sKey \in DOMAIN b : sKey < seed})

EvictBefore(seed) == buckets' = EvictedMap(buckets, seed)

\* runEviction at wall-clock time t: the cutoff is t - TTL; uint64 of a
\* negative cutoff wraps to a value whose quotient is above every seed in use
CutoffSeed(t) ==
  IF t - EvictionTTLMs >= 0 THEN (t - EvictionTTLMs) \div WindowMs ELSE MaxSeed + 1

runEviction(t) == EvictBefore(CutoffSeed(t))

\* The record of a call made through the store's interface
Call(op, seed, rowID, colID, deltaProb, timestampMs, existed, result) ==
  [op |-> op, seed |-> seed, row |-> rowID, col |-> colID, deltaProb |-> deltaProb,
   timestampMs |-> timestampMs, existed |-> existed, buckets |-> result]

CallApplyDelta(seed, rowID, colID, deltaProb, timestampMs) ==
  LET bucket == ApplyDeltaResult(buckets, seed, rowID, colID, deltaProb, timestampMs)
  IN /\ ApplyDelta(seed, rowID, colID, deltaProb, timestampMs)
     /\ call' = Call("ApplyDelta", seed, rowID, colID, deltaProb, timestampMs,
                     HasBucket(buckets, seed, rowID, colID), <<bucket>>)
     /\ lastRetTs' = [lastRetTs EXCEPT ![<<seed, rowID, colID>>] = <<bucket.LastUpdateTimeMs>>]
     /\ nOps' = nOps + 1
     /\ UNCHANGED <<lockVars, replica>>

CallGetSeed(seed) ==
  /\ GetSeed(seed)
  /\ \E q \in GetSeedResults(buckets, seed) :
       call' = Call("GetSeed", seed, 0, 0, FZero, 0, seed \in DOMAIN buckets, q)
  /\ nOps' = nOps + 1
  /\ UNCHANGED <<lastRetTs, lockVars, replica>>

CallEvictBefore(seed) ==
  /\ EvictBefore(seed)
  /\ call' = Call("EvictBefore", seed, 0, 0, FZero, 0, seed \in DOMAIN buckets, <<>>)
  /\ nOps' = nOps + 1
  /\ UNCHANGED <<lastRetTs, lockVars, replica>>

CallRunEviction(t) ==
  /\ runEviction(t)
  /\ call' = Call("runEviction", CutoffSeed(t), 0, 0, FZero, t, FALSE, <<>>)
  /\ nOps' = nOps + 1
  /\ UNCHANGED <<lastRetTs, lockVars, replica>>

\* ---- two stores and the deltas for one key, applied in any order
Replicas == {"a", "b"}
NewReplica == [buckets |-> EmptyMap, applied |-> {}, cut |-> FALSE]
NoReplicas == [key |-> <<0, 0, 0>>, deltas |-> <<>>, st |-> [r \in Replicas |-> NewReplica]]

\* The deltas sent for the key: up to MaxDeltas of them
DeltaSeqs ==
  UNION {[1..n -> DeltaProbs \X Timestamps] : n \in 0..MaxDeltas}

\* store r makes the ApplyDelta call of the i-th delta; cut records whether
\* the clamp changed the sum
ReplicaApplyDelta(r, i) ==
  LET k == replica.key
      b == replica.st[r].buckets
      d == replica.deltas[i]
      p == IF HasBucket(b, k[1], k[2], k[3]) THEN b[k[1]][k[2]][k[3]].Prob ELSE FZero
      sum == FAdd(p, d[1])
  IN /\ i \in DOMAIN replica.deltas /\ i \notin replica.st[r].applied
     /\ replica' = [replica EXCEPT
          !.st[r].buckets = PutBucket(b, k[1], k[2],
                              AggregateBucket(b, k[1], k[2], k[3], d[1], d[2])),
          !.st[r].applied = @ \cup {i},
          !.st[r].cut = @ \/ ClampProb(sum) # sum]
     /\ UNCHANGED <<buckets, call, lastRetTs, nOps, lockVars>>

\* ---- the same calls statement by statement, under the store's RWMutex
Goroutines == 1..MaxGo
NoCall ==
  [pc |-> "idle", op |-> "none", seed |-> 0, row |-> 0, col |-> 0, deltaProb |-> FZero,
   timestampMs |-> 0, todo |-> {}, result |-> <<>>, held |-> EmptyMap]

\* a read lock that does not wait for the writer
RLockNoWait(m) == TRUE

\* sync.RWMutex: RLock waits for the writer, Lock for the writer and the readers
RLockReady(m) == m.w = 0
LockReady(m) == m.w = 0 /\ m.r = {}

\* goroutine g calls ApplyDelta, GetSeed or EvictBefore and reaches the lock
StoreCall(g, op, seed, rowID, colID, deltaProb, timestampMs) ==
  /\ stCall[g].pc = "idle"
  /\ stCall' = [stCall EXCEPT ![g] =
       [NoCall EXCEPT !.pc = IF op = "GetSeed" THEN "RLock" ELSE "Lock", !.op = op,
                      !.seed = seed, !.row = rowID, !.col = colID,
                      !.deltaProb = deltaProb, !.timestampMs = timestampMs]]
  /\ nOps' = nOps + 1
  /\ UNCHANGED <<buckets, call, lastRetTs, mu, replica>>

\* s.mu.RLock() returns; held is the map as it is at that instant
MuRLock(g) ==
  /\ stCall[g].pc = "RLock" /\ RLockReady(mu)
  /\ mu' = [mu EXCEPT !.r = @ \cup {g}]
  /\ stCall' = [stCall EXCEPT ![g].pc = "body", ![g].held = buckets]
  /\ UNCHANGED <<buckets, call, lastRetTs, nOps, replica>>

\* s.mu.Lock() returns
MuLock(g) ==
  /\ stCall[g].pc = "Lock" /\ LockReady(mu)
  /\ mu' = [mu EXCEPT !.w = g]
  /\ stCall' = [stCall EXCEPT ![g].pc = "body", ![g].held = buckets]
  /\ UNCHANGED <<buckets, call, lastRetTs, nOps, replica>>

\* GetSeed: seedMap, exists := s.buckets[seed]; the range loops will visit
\* the buckets of seedMap (none when the seed is absent)
GetSeedLookup(g) ==
  /\ stCall[g].pc = "body" /\ stCall[g].op = "GetSeed"
  /\ stCall' = [stCall EXCEPT ![g].pc = "range",
                              ![g].todo = {rc \in Rows \X Cols :
                                            HasBucket(buckets, stCall[g].seed, rc[1], rc[2])}]
  /\ UNCHANGED <<buckets, call, lastRetTs, nOps, mu, replica>>

\* GetSeed: one pass of the inner range loop appends a copy of one bucket
GetSeedRange(g) ==
  /\ stCall[g].pc = "range"
  /\ \E rc \in stCall[g].todo :
       stCall' = [stCall EXCEPT
         ![g].todo = @ \ {rc},
         ![g].result = IF HasBucket(buckets, stCall[g].seed, rc[1], rc[2])
                       THEN Append(@, buckets[stCall[g].seed][rc[1]][rc[2]])
                       ELSE @]
  /\ UNCHANGED <<buckets, call, lastRetTs, nOps, mu, replica>>

\* GetSeed: return result, nil, and the deferred RUnlock
GetSeedReturn(g) ==
  /\ stCall[g].pc = "range" /\ stCall[g].todo = {}
  /\ mu' = [mu EXCEPT !.r = @ \ {g}]
  /\ call' = Call("GetSeed", stCall[g].seed, 0, 0, FZero, 0,
                   stCall[g].seed \in DOMAIN stCall[g].held, stCall[g].result)
  /\ stCall' = [stCall EXCEPT ![g] = NoCall]
  /\ UNCHANGED <<buckets, lastRetTs, nOps, replica>>

\* ApplyDelta: the maps and the bucket are made when missing, and
\* bucket.Prob += deltaProb
ApplyDeltaAdd(g) ==
  LET c == stCall[g]
      bucket == IF HasBucket(buckets, c.seed, c.row, c.col)
                THEN buckets[c.seed][c.row][c.col]
                ELSE NewBucket(c.row, c.col)
  IN /\ c.pc = "body" /\ c.op = "ApplyDelta"
     /\ buckets' = PutBucket(buckets, c.seed, c.row,
                      [bucket EXCEPT !.Prob = FAdd(@, c.deltaProb)])
     /\ stCall' = [stCall EXCEPT ![g].pc = "clamp"]
     /\ UNCHANGED <<call, lastRetTs, nOps, mu, replica>>

\* ApplyDelta: the clamp, the timestamp, the copy returned, and the
\* deferred Unlock
ApplyDeltaReturn(g) ==
  LET c == stCall[g]
      old == buckets[c.seed][c.row][c.col]
      bucket == [old EXCEPT !.Prob = ClampProb(@),
                            !.LastUpdateTimeMs = MaxTimestamp(@, c.timestampMs)]
  IN /\ c.pc = "clamp"
     /\ buckets' = PutBucket(buckets, c.seed, c.row, bucket)
     /\ mu' = [mu EXCEPT !.w = 0]
     /\ call' = Call("ApplyDelta", c.seed, c.row, c.col, c.deltaProb, c.timestampMs,
                     HasBucket(c.held, c.seed, c.row, c.col), <<bucket>>)
     /\ lastRetTs' = [lastRetTs EXCEPT ![<<c.seed, c.row, c.col>>] = <<bucket.LastUpdateTimeMs>>]
     /\ stCall' = [stCall EXCEPT ![g] = NoCall]
     /\ UNCHANGED <<nOps, replica>>

\* EvictBefore: one pass of the range loop deletes one key below seed
EvictBeforeDelete(g) ==
  /\ stCall[g].pc = "body" /\ stCall[g].op = "EvictBefore"
  /\ \E sKey \in DOMAIN buckets :
       /\ sKey < stCall[g].seed
       /\ buckets' = MapDel(buckets, {sKey})
  /\ UNCHANGED <<call, lastRetTs, nOps, mu, stCall, replica>>

\* EvictBefore: the loop is over; return nil and the deferred Unlock
EvictBeforeReturn(g) ==
  /\ stCall[g].pc = "body" /\ stCall[g].op = "EvictBefore"
  /\ \A sKey \in DOMAIN buckets : sKey >= stCall[g].seed
  /\ mu' = [mu EXCEPT !.w = 0]
  /\ call' = Call("EvictBefore", stCall[g].seed, 0, 0, FZero, 0,
                   stCall[g].seed \in DOMAIN stCall[g].held, <<>>)
  /\ stCall' = [stCall EXCEPT ![g] = NoCall]
  /\ UNCHANGED <<buckets, lastRetTs, nOps, replica>>

StoreInit ==
  /\ buckets = EmptyMap
  /\ call = Call("NewInMemoryStore", 0, 0, 0, FZero, 0, FALSE, <<>>)
  /\ lastRetTs = [k \in Keys |-> <<>>]
  /\ nOps = 0
  /\ mu = [w |-> 0, r |-> {}]
  /\ stCall = [g \in Goroutines |-> NoCall]
  /\ replica = NoReplicas

\* ----------------------------------------------------------- broadcast hub
NoMsg == [seed |-> 0, buckets |-> <<>>]
\* a channel not made yet; cap is the capacity Register will make it with
NoChan == [made |-> FALSE, q |-> <<>>, closed |-> FALSE, cap |-> SendCap]
IsOpen(c) == Send[c].made /\ ~Send[c].closed

\* close(client.Send): closing a closed channel panics
CloseSend(c) ==
  IF Send[c].closed
  THEN /\ panic' = "close of closed channel"
       /\ UNCHANGED <<Send, closes>>
  ELSE /\ Send' = [Send EXCEPT ![c].closed = TRUE]
       /\ closes' = [closes EXCEPT ![c] = @ + 1]
       /\ panic' = panic

\* case client := <-h.register
HubRegister(c) ==
  /\ hubPc = "select" /\ c \in register
  /\ register' = register \ {c}
  /\ clients' = clients \cup {c}
  /\ UNCHANGED <<Send, unregister, broadcast, hubPc, message, todo, closes, panic, nMsg,
                 dropped, unregs>>

\* case client := <-h.unregister
HubUnregisterNoCheck(c) ==
  /\ hubPc = "select" /\ c \in unregister
  /\ unregister' = unregister \ {c}
  /\ clients' = clients \ {c}
  /\ CloseSend(c)
  /\ unregs' = [unregs EXCEPT ![c] = @ + 1]
  /\ UNCHANGED <<register, broadcast, hubPc, message, todo, nMsg, dropped>>
HubUnregisterLeavesOpen(c) ==
  /\ hubPc = "select" /\ c \in unregister
  /\ unregister' = unregister \ {c}
  /\ clients' = clients \ {c}
  /\ unregs' = [unregs EXCEPT ![c] = @ + 1]
  /\ UNCHANGED <<Send, closes, panic>>
  /\ UNCHANGED <<register, broadcast, hubPc, message, todo, nMsg, dropped>>
HubUnregisterIgnored(c) ==
  /\ hubPc = "select" /\ c \in unregister
  /\ unregister' = unregister \ {c}
  /\ unregs' = [unregs EXCEPT ![c] = @ + 1]
  /\ UNCHANGED <<clients, Send, closes, panic>>
  /\ UNCHANGED <<register, broadcast, hubPc, message, todo, nMsg, dropped>>
HubUnregister(c) ==
  /\ hubPc = "select" /\ c \in unregister
  /\ unregister' = unregister \ {c}
  /\ IF c \in clients
     THEN clients' = clients \ {c} /\ CloseSend(c)
     ELSE UNCHANGED <<clients, Send, closes, panic>>
  /\ unregs' = [unregs EXCEPT ![c] = @ + 1]
  /\ UNCHANGED <<register, broadcast, hubPc, message, todo, nMsg, dropped>>

\* case message := <-h.broadcast: the range loop starts over h.clients
HubBroadcast(b) ==
  /\ hubPc = "select" /\ b \in broadcast
  /\ broadcast' = broadcast \ {b}
  /\ message' = b.msg
  /\ todo' = clients
  /\ hubPc' = "range"
  /\ UNCHANGED <<clients, Send, register, unregister, closes, panic, nMsg, dropped, unregs>>

\* one iteration of the range loop: select { case client.Send <- message: default: }
HubOfferSkipFull(c) ==
  /\ hubPc = "range" /\ c \in todo
  /\ todo' = todo \ {c}
  /\ IF Len(Send[c].q) < Send[c].cap
     THEN Send' = [Send EXCEPT ![c].q = Append(@, message)]
     ELSE Send' = Send
  /\ UNCHANGED <<clients, closes, panic>>
  /\ UNCHANGED <<register, unregister, broadcast, hubPc, message, nMsg, dropped, unregs>>
HubOfferBlocking(c) ==
  /\ hubPc = "range" /\ c \in todo
  /\ todo' = todo \ {c}
  /\ ~Send[c].closed /\ Len(Send[c].q) < Send[c].cap
  /\ Send' = [Send EXCEPT ![c].q = Append(@, message)]
  /\ UNCHANGED <<clients, closes, panic, dropped>>
  /\ UNCHANGED <<register, unregister, broadcast, hubPc, message, nMsg, unregs>>
HubOffer(c) ==
  /\ hubPc = "range" /\ c \in todo
  /\ todo' = todo \ {c}
  /\ IF Send[c].closed
     THEN /\ panic' = "send on closed channel"
          /\ UNCHANGED <<clients, Send, closes, dropped>>
     ELSE IF Len(Send[c].q) < Send[c].cap
     THEN /\ Send' = [Send EXCEPT ![c].q = Append(@, message)]
          /\ UNCHANGED <<clients, closes, panic, dropped>>
     ELSE /\ CloseSend(c)
          /\ clients' = clients \ {c}
          /\ dropped' = dropped \cup {c}
  /\ UNCHANGED <<register, unregister, broadcast, hubPc, message, nMsg, unregs>>

\* the range loop is over: back to the select
HubRangeDone ==
  /\ hubPc = "range" /\ todo = {}
  /\ hubPc' = "select"
  /\ UNCHANGED <<clients, Send, register, unregister, broadcast, message, todo,
                 closes, panic, nMsg, dropped, unregs>>

\* Hub.Register: a new client record with an empty queue, handed to the loop
Register(c) ==
  /\ ~Send[c].made
  /\ Send' = [Send EXCEPT ![c] = [made |-> TRUE, q |-> <<>>, closed |-> FALSE,
                                  cap |-> Send[c].cap]]
  /\ register' = register \cup {c}
  /\ UNCHANGED <<clients, unregister, broadcast, hubPc, message, todo, closes, panic, nMsg,
                 dropped, unregs>>

\* Hub.Unregister of a record a Register call returned
Unregister(c) ==
  /\ Send[c].made /\ c \notin register /\ c \notin unregister
  /\ unregs[c] < MaxUnreg
  /\ unregister' = unregister \cup {c}
  /\ UNCHANGED <<clients, Send, register, broadcast, hubPc, message, todo, closes, panic, nMsg,
                 dropped, unregs>>

\* Hub.Broadcast(msg) by the task `from`
Broadcast(from, msg) ==
  /\ \A b \in broadcast : b.from # from
  /\ broadcast' = broadcast \cup {[from |-> from, msg |-> msg]}
  /\ UNCHANGED <<clients, Send, register, unregister, hubPc, message, todo, closes, panic,
                 dropped, unregs>>

\* a reader takes the next message of a client's queue
ReceiveNewest(c) ==
  /\ Send[c].made /\ Len(Send[c].q) > 0
  /\ Send' = [Send EXCEPT ![c].q = SubSeq(@, 1, Len(@) - 1)]
  /\ UNCHANGED <<clients, register, unregister, broadcast, hubPc, message, todo,
                 closes, panic, nMsg, dropped, unregs>>
Receive(c) ==
  /\ Send[c].made /\ Len(Send[c].q) > 0
  /\ Send' = [Send EXCEPT ![c].q = Tail(@)]
  /\ UNCHANGED <<clients, register, unregister, broadcast, hubPc, message, todo,
                 closes, panic, nMsg, dropped, unregs>>

\* NewHub, with channels of capacity k
NewHub(k) ==
  /\ clients = {}
  /\ Send = [c \in ClientIds |-> [NoChan EXCEPT !.cap = k]]
  /\ register = {}
  /\ unregister = {}
  /\ broadcast = {}
  /\ hubPc = "select"
  /\ message = NoMsg
  /\ todo = {}
  /\ closes = [c \in ClientIds |-> 0]
  /\ panic = "none"
  /\ nMsg = 0
  /\ dropped = {}
  /\ unregs = [c \in ClientIds |-> 0]
HubInit == NewHub(SendCap)

\* ---------------------------------------------------------- state service
NoReq == [type |-> "none", seed |-> 0, deltas |-> <<>>]
EOF == [type |-> "EOF", seed |-> 0, deltas |-> <<>>]
DeltaUpdate(seed, deltas) == [type |-> "DeltaUpdate", seed |-> seed, deltas |-> deltas]
StateRequest(seed) == [type |-> "StateRequest", seed |-> seed, deltas |-> <<>>]
UnknownRequest == [type |-> "unknown", seed |-> 0, deltas |-> <<>>]
BucketDelta(rowID, colID, deltaProb, ts) ==
  [RowId |-> rowID, ColId |-> colID, DeltaProb |-> deltaProb, LastUpdateTimeMs |-> ts]
SyncResponse(seed, bs) == [seed |-> seed, buckets |-> bs]

\* the requests a peer may send
PeerRequests ==
  {DeltaUpdate(0, <<BucketDelta(0, 0, Num(1), MaxTs)>>),
   DeltaUpdate(0, <<BucketDelta(0, 0, Num(1), 0), BucketDelta(0, MaxCol, Num(One + 1), MaxTs)>>),
   StateRequest(0),
   UnknownRequest}

Pending(c) == \E b \in broadcast : b.from = c
\* the handler is about to call stream.Recv: at the top of its loop, or after
\* the last Broadcast of a DeltaUpdate has returned
AtRecv(c) ==
  \/ syncPc[c] = "recv"
  \/ syncPc[c] = "deltas" /\ req[c].deltas = <<>> /\ ~Pending(c)

\* Sync is called for a new stream: s.hub.Register()
SyncRegister(c) ==
  /\ syncPc[c] = "idle"
  /\ Register(c)
  /\ syncPc' = [syncPc EXCEPT ![c] = "registering"]
  /\ UNCHANGED <<req, resp, inbound, ctxDone, senderPc, nReq, nMsg>>

\* Register returned: defer Unregister, make done, start the sender goroutine
SyncStartSender(c) ==
  /\ syncPc[c] = "registering" /\ c \notin register
  /\ syncPc' = [syncPc EXCEPT ![c] = "recv"]
  /\ senderPc' = [senderPc EXCEPT ![c] = "range"]
  /\ UNCHANGED <<req, resp, inbound, ctxDone, nReq>>

\* return from Sync: the deferred s.hub.Unregister(client) is called
SyncDeferredUnregister(c) ==
  /\ unregister' = unregister \cup {c}
  /\ syncPc' = [syncPc EXCEPT ![c] = "unregistering"]
  /\ UNCHANGED <<clients, Send, register, broadcast, hubPc, message, todo, closes, panic,
                 nMsg, dropped, unregs>>

\* stream.Recv returns io.EOF: return nil
SyncRecvEOF(c) ==
  /\ AtRecv(c) /\ inbound[c] # <<>> /\ Head(inbound[c]) = EOF
  /\ inbound' = [inbound EXCEPT ![c] = Tail(@)]
  /\ SyncDeferredUnregister(c)
  /\ UNCHANGED <<req, resp, ctxDone, senderPc, nReq>>

\* stream.Recv returns an error (the stream's context is done): return it
SyncRecvError(c) ==
  /\ AtRecv(c) /\ ctxDone[c]
  /\ SyncDeferredUnregister(c)
  /\ UNCHANGED <<req, resp, inbound, ctxDone, senderPc, nReq>>

\* stream.Recv returns a DeltaUpdate
SyncRecvDeltaUpdate(c) ==
  /\ AtRecv(c) /\ inbound[c] # <<>> /\ Head(inbound[c]).type = "DeltaUpdate"
  /\ inbound' = [inbound EXCEPT ![c] = Tail(@)]
  /\ req' = [req EXCEPT ![c] = Head(inbound[c])]
  /\ syncPc' = [syncPc EXCEPT ![c] = "deltas"]
  /\ UNCHANGED <<resp, ctxDone, senderPc, nReq>>

\* one iteration of the loop over deltaUpdate.Deltas: ApplyDelta, then
\* s.hub.Broadcast of the bucket it returned (blocked until the hub takes it)
SyncApplyDeltaSkipBroadcast(c) ==
  /\ syncPc[c] = "deltas" /\ req[c].deltas # <<>> /\ ~Pending(c)
  /\ LET delta == Head(req[c].deltas)
         seed == req[c].seed
     IN ApplyDelta(seed, delta.RowId, delta.ColId, delta.DeltaProb, delta.LastUpdateTimeMs)
  /\ req' = [req EXCEPT ![c].deltas = Tail(@)]
  /\ UNCHANGED hubVars
  /\ UNCHANGED <<syncPc, resp, inbound, ctxDone, senderPc, nReq>>
\* an ApplyDelta that returns the pointer to the stored bucket: the
\* responses that already hold the bucket are the same object and change with it
Aliased(msg, seed, bucket) ==
  IF msg.seed # seed THEN msg
  ELSE [msg EXCEPT !.buckets =
          [i \in DOMAIN msg.buckets |->
             IF msg.buckets[i].RowId = bucket.RowId /\ msg.buckets[i].ColId = bucket.ColId
             THEN bucket ELSE msg.buckets[i]]]
SyncApplyDeltaReturnsPointer(c) ==
  /\ syncPc[c] = "deltas" /\ req[c].deltas # <<>> /\ ~Pending(c)
  /\ LET delta == Head(req[c].deltas)
         seed == req[c].seed
         bucket == ApplyDeltaResult(buckets, seed, delta.RowId, delta.ColId,
                                    delta.DeltaProb, delta.LastUpdateTimeMs)
     IN /\ ApplyDelta(seed, delta.RowId, delta.ColId, delta.DeltaProb, delta.LastUpdateTimeMs)
        /\ broadcast' = broadcast \cup {[from |-> c, msg |-> SyncResponse(seed, <<bucket>>)]}
        /\ Send' = [x \in ClientIds |->
                      [Send[x] EXCEPT !.q = [i \in DOMAIN Send[x].q |->
                                               Aliased(Send[x].q[i], seed, bucket)]]]
        /\ UNCHANGED <<clients, register, unregister, hubPc, message, todo, closes, panic,
                       dropped, unregs>>
  /\ req' = [req EXCEPT ![c].deltas = Tail(@)]
  /\ UNCHANGED <<syncPc, resp, inbound, ctxDone, senderPc, nReq, nMsg>>
SyncApplyDelta(c) ==
  /\ syncPc[c] = "deltas" /\ req[c].deltas # <<>> /\ ~Pending(c)
  /\ LET delta == Head(req[c].deltas)
         seed == req[c].seed
     IN /\ ApplyDelta(seed, delta.RowId, delta.ColId, delta.DeltaProb, delta.LastUpdateTimeMs)
        /\ Broadcast(c, SyncResponse(seed,
              <<ApplyDeltaResult(buckets, seed, delta.RowId, delta.ColId,
                                 delta.DeltaProb, delta.LastUpdateTimeMs)>>))
  /\ req' = [req EXCEPT ![c].deltas = Tail(@)]
  /\ UNCHANGED <<syncPc, resp, inbound, ctxDone, senderPc, nReq, nMsg>>

\* stream.Recv returns a StateRequest: GetSeed, and the response is built
SyncRecvStateRequest(c) ==
  /\ AtRecv(c) /\ inbound[c] # <<>> /\ Head(inbound[c]).type = "StateRequest"
  /\ inbound' = [inbound EXCEPT ![c] = Tail(@)]
  /\ GetSeed(Head(inbound[c]).seed)
  /\ \E q \in GetSeedResults(buckets, Head(inbound[c]).seed) :
       resp' = [resp EXCEPT ![c] = SyncResponse(Head(inbound[c]).seed, q)]
  /\ syncPc' = [syncPc EXCEPT ![c] = "reply"]
  /\ UNCHANGED <<req, ctxDone, senderPc, nReq>>

\* select { case client.Send <- resp: ...}: the send case is taken; a send on
\* a closed channel panics
SyncSendReply(c) ==
  /\ syncPc[c] = "reply"
  /\ IF Send[c].closed
     THEN /\ panic' = "send on closed channel"
          /\ UNCHANGED <<Send, syncPc>>
     ELSE /\ Len(Send[c].q) < Send[c].cap
          /\ Send' = [Send EXCEPT ![c].q = Append(@, resp[c])]
          /\ syncPc' = [syncPc EXCEPT ![c] = "recv"]
          /\ panic' = panic
  /\ UNCHANGED <<clients, register, unregister, broadcast, hubPc, message, todo, closes,
                 nMsg, dropped, unregs>>
  /\ UNCHANGED <<req, resp, inbound, ctxDone, senderPc, nReq>>

\* select { ... case <-stream.Context().Done(): return stream.Context().Err() }
SyncReplyCancelled(c) ==
  /\ syncPc[c] = "reply" /\ ctxDone[c]
  /\ SyncDeferredUnregister(c)
  /\ UNCHANGED <<req, resp, inbound, ctxDone, senderPc, nReq>>

\* stream.Recv returns a request of neither kind: logged, the loop goes on
SyncRecvUnknown(c) ==
  /\ AtRecv(c) /\ inbound[c] # <<>> /\ Head(inbound[c]).type = "unknown"
  /\ inbound' = [inbound EXCEPT ![c] = Tail(@)]
  /\ syncPc' = [syncPc EXCEPT ![c] = "recv"]
  /\ UNCHANGED <<req, resp, ctxDone, senderPc, nReq>>

\* the deferred Unregister returned: Sync returns, which ends the stream
SyncReturn(c) ==
  /\ syncPc[c] = "unregistering" /\ c \notin unregister
  /\ syncPc' = [syncPc EXCEPT ![c] = "returned"]
  /\ ctxDone' = [ctxDone EXCEPT ![c] = TRUE]
  /\ UNCHANGED <<req, resp, inbound, senderPc, nReq>>

\* sender goroutine: for msg := range client.Send { stream.Send(msg) }, one
\* iteration whose stream.Send succeeds.  The message is taken from the
\* queue when stream.Send completes: a sender blocked in stream.Send with a
\* message in hand is a queue one slot longer.
SenderSend(c) ==
  /\ senderPc[c] = "range" /\ Send[c].q # <<>> /\ ~ctxDone[c]
  /\ Receive(c)
  /\ UNCHANGED <<syncPc, req, resp, inbound, ctxDone, senderPc, nReq>>

\* sender goroutine: stream.Send(msg) fails, the goroutine returns and done
\* is closed
SenderSendError(c) ==
  /\ senderPc[c] = "range" /\ Send[c].q # <<>> /\ ctxDone[c]
  /\ Receive(c)
  /\ senderPc' = [senderPc EXCEPT ![c] = "done"]
  /\ UNCHANGED <<syncPc, req, resp, inbound, ctxDone, nReq>>

\* sender goroutine: the channel is closed and drained, the loop ends and
\* done is closed
SenderRangeEnd(c) ==
  /\ senderPc[c] = "range" /\ Send[c].q = <<>> /\ Send[c].closed
  /\ senderPc' = [senderPc EXCEPT ![c] = "done"]
  /\ UNCHANGED <<syncPc, req, resp, inbound, ctxDone, nReq>>

StreamOpen(c) == syncPc[c] \notin {"idle", "returned"} /\ ~ctxDone[c]

\* the peer sends a request on its stream
PeerSend(c, r) ==
  /\ StreamOpen(c) /\ nReq < MaxReq /\ Len(inbound[c]) < InCap
  /\ \A i \in DOMAIN inbound[c] : inbound[c][i] # EOF
  /\ inbound' = [inbound EXCEPT ![c] = Append(@, r)]
  /\ nReq' = nReq + 1
  /\ UNCHANGED <<syncPc, req, resp, ctxDone, senderPc>>

\* the peer closes its sending side
PeerCloseSend(c) ==
  /\ StreamOpen(c) /\ Len(inbound[c]) < InCap
  /\ \A i \in DOMAIN inbound[c] : inbound[c][i] # EOF
  /\ inbound' = [inbound EXCEPT ![c] = Append(@, EOF)]
  /\ UNCHANGED <<syncPc, req, resp, ctxDone, senderPc, nReq>>

\* the peer, or the connection, cancels the stream
PeerCancel(c) ==
  /\ StreamOpen(c)
  /\ ctxDone' = [ctxDone EXCEPT ![c] = TRUE]
  /\ UNCHANGED <<syncPc, req, resp, inbound, senderPc, nReq>>

SvcInit ==
  /\ syncPc = [c \in ClientIds |-> "idle"]
  /\ req = [c \in ClientIds |-> NoReq]
  /\ resp = [c \in ClientIds |-> NoMsg]
  /\ inbound = [c \in ClientIds |-> <<>>]
  /\ ctxDone = [c \in ClientIds |-> FALSE]
  /\ senderPc = [c \in ClientIds |-> "none"]
  /\ nReq = 0

\* ------------------------------------------------------------ local tracker
MutatorIds == 1..MaxMutator
MutatorOps == {"RegisterRequest", "ReportOutcome"}
Idle == [op |-> "none", pc |-> "idle", id |-> 0, onMain |-> 0]
NoTick == 0 - 1

\* the seeds of the two structures built at construction
currentSeed(t) == t \div WindowMs
nextSeed(t) == currentSeed(t) + 1

\* the seed the rotation goroutine computes when it handles a tick at time t
RotationSeedThisWindow(t) == t \div WindowMs
RotationSeed(t) == (t \div WindowMs) + 1

\* counting structure, as created: every bucket at probability 0, time 0
NewStructureBuckets ==
  [k \in Rows \X Cols |-> [Prob |-> FZero, LastUpdateTimeMs |-> 0]]

\* createStructure: the o-th structure the tracker creates; no call has been
\* made on it
createStructure(o) == [obj |-> o, calls |-> {}, buckets |-> NewStructureBuckets]

NoResp == [seed |-> 0 - 1, buckets |-> <<>>]

\* a tracker built at clock time t0 with the real clock and a ticker of
\* period RotationFrequency, in local-only mode
NewFairnessTracker(t0) ==
  /\ now = t0
  /\ main = currentSeed(t0)
  /\ secondary = nextSeed(t0)
  /\ nextFire = t0 + WindowMs
  /\ tickerC = FALSE
  /\ stopRotation = "open"
  /\ rotPc = "select"
  /\ rotSeed = 0
  /\ mut = [m \in MutatorIds |-> Idle]
  /\ mainStructure = createStructure(1)
  /\ secondaryStructure = createStructure(2)
  /\ nObj = 2
  /\ nCall = 0
  /\ secondarySince = 0
  /\ incoming = NoResp

\* time passes; a running ticker fires when its period is over
ClockAdvance ==
  /\ now < MaxNow /\ (nextFire = NoTick \/ now < nextFire)
  /\ now' = now + 1
  /\ UNCHANGED <<main, secondary, nextFire, tickerC, stopRotation, rotPc, rotSeed, mut, structureVars>>

\* the ticker fires: its channel holds one tick, a tick that finds one
\* waiting is dropped
TickerFire ==
  /\ nextFire # NoTick /\ now = nextFire
  /\ tickerC' = TRUE
  /\ nextFire' = nextFire + WindowMs
  /\ UNCHANGED <<now, main, secondary, stopRotation, rotPc, rotSeed, mut, structureVars>>

\* rotation goroutine, case <-ticker.C(): the clock is read when the tick is
\* handled, the seed computed and the new structure created
RotationTick ==
  /\ rotPc = "select" /\ tickerC
  /\ tickerC' = FALSE
  /\ rotSeed' = RotationSeed(now)
  /\ rotPc' = "lock"
  /\ nObj' = nObj + 1
  /\ UNCHANGED <<now, main, secondary, nextFire, stopRotation, mut>>
  /\ UNCHANGED <<mainStructure, secondaryStructure, nCall, secondarySince, incoming>>

\* rotation goroutine: rotationLock.Lock(), the swap, Unlock(); the new
\* secondary is the structure created last
RotationSwapNoLock ==
  /\ rotPc = "lock"
  /\ main' = secondary
  /\ mainStructure' = secondaryStructure
  /\ secondary' = rotSeed
  /\ secondaryStructure' = createStructure(nObj)
  /\ secondarySince' = nCall
  /\ rotPc' = "select"
  /\ UNCHANGED <<now, nextFire, tickerC, stopRotation, rotSeed, mut, nObj, nCall, incoming>>
RotationSwap ==
  /\ rotPc = "lock" /\ \A m \in MutatorIds : mut[m].pc = "idle"
  /\ main' = secondary
  /\ mainStructure' = secondaryStructure
  /\ secondary' = rotSeed
  /\ secondaryStructure' = createStructure(nObj)
  /\ secondarySince' = nCall
  /\ rotPc' = "select"
  /\ UNCHANGED <<now, nextFire, tickerC, stopRotation, rotSeed, mut, nObj, nCall, incoming>>

\* rotation goroutine, case <-ft.stopRotation
RotationStop ==
  /\ rotPc = "select" /\ stopRotation = "closed"
  /\ rotPc' = "stopped"
  /\ UNCHANGED <<now, main, secondary, nextFire, tickerC, stopRotation, rotSeed, mut, structureVars>>

\* Close: stopRotation is closed and the ticker stopped (a tick already in
\* the channel stays there)
Close ==
  /\ stopRotation = "open"
  /\ stopRotation' = "closed"
  /\ nextFire' = NoTick
  /\ UNCHANGED <<now, main, secondary, tickerC, rotPc, rotSeed, mut, structureVars>>

\* RegisterRequest / ReportOutcome: RLock, then the call on mainStructure
\* is next
MutatorCall(m, op) ==
  /\ mut[m].pc = "idle" /\ nCall < MaxCall
  /\ nCall' = nCall + 1
  /\ mut' = [mut EXCEPT ![m] = [op |-> op, pc |-> "main", id |-> nCall + 1, onMain |-> 0]]
  /\ UNCHANGED <<now, main, secondary, nextFire, tickerC, stopRotation, rotPc, rotSeed>>
  /\ UNCHANGED <<mainStructure, secondaryStructure, nObj, secondarySince, incoming>>

\* the call on mainStructure is made, the one on secondaryStructure is next
MutatorMain(m) ==
  /\ mut[m].pc = "main"
  /\ mainStructure' = [mainStructure EXCEPT !.calls = @ \cup {mut[m].id}]
  /\ mut' = [mut EXCEPT ![m].pc = "secondary", ![m].onMain = mainStructure.obj]
  /\ UNCHANGED <<now, main, secondary, nextFire, tickerC, stopRotation, rotPc, rotSeed>>
  /\ UNCHANGED <<secondaryStructure, nObj, nCall, secondarySince, incoming>>

\* the call on secondaryStructure is made; return, and the deferred RUnlock
MutatorReturnSkipsSecondary(m) ==
  /\ mut[m].pc = "secondary"
  /\ mut' = [mut EXCEPT ![m] = Idle]
  /\ UNCHANGED <<now, main, secondary, nextFire, tickerC, stopRotation, rotPc, rotSeed>>
  /\ UNCHANGED <<mainStructure, secondaryStructure, nObj, nCall, secondarySince, incoming>>
MutatorReturn(m) ==
  /\ mut[m].pc = "secondary"
  /\ secondaryStructure' = [secondaryStructure EXCEPT !.calls = @ \cup {mut[m].id}]
  /\ mut' = [mut EXCEPT ![m] = Idle]
  /\ UNCHANGED <<now, main, secondary, nextFire, tickerC, stopRotation, rotPc, rotSeed>>
  /\ UNCHANGED <<mainStructure, nObj, nCall, secondarySince, incoming>>

\* ---- the service wrapper and the /report handler in front of the tracker
HttpMethods == {"POST", "GET"}
ClientIdStrings == {"", "x"}
OutcomeStrings == {"success", "failure", "unknown", "Success", ""}
NoHttp ==
  [pc |-> "idle", method |-> "", clientID |-> "", outcome |-> "", arg |-> "none",
   err |-> "none", status |-> "none"]

\* fairService.Report, up to the call of the tracker: the outcome it hands
\* to ReportOutcome, or the error it returns
ReportAnyOutcome(o) ==
  CASE o = "success" -> [arg |-> "OutcomeSuccess", err |-> "nil"]
    [] OTHER -> [arg |-> "OutcomeFailure", err |-> "nil"]
Report(o) ==
  CASE o = "success" -> [arg |-> "OutcomeSuccess", err |-> "nil"]
    [] o = "failure" -> [arg |-> "OutcomeFailure", err |-> "nil"]
    [] OTHER -> [arg |-> "none", err |-> "ErrInvalidOutcome"]

\* the /report handler on goroutine m, up to its response or to the call
\* of tracker.ReportOutcome
HandleReport(m, method, clientID, o) ==
  LET r == [NoHttp EXCEPT !.method = method, !.clientID = clientID, !.outcome = o]
  IN /\ httpReq[m].pc # "called" /\ mut[m].pc = "idle"
     /\ IF method # "POST"
        THEN /\ httpReq' = [httpReq EXCEPT ![m] = [r EXCEPT !.pc = "done", !.status = "405"]]
             /\ UNCHANGED rotationVars
        ELSE IF clientID = ""
        THEN /\ httpReq' = [httpReq EXCEPT ![m] = [r EXCEPT !.pc = "done", !.status = "400"]]
             /\ UNCHANGED rotationVars
        ELSE IF Report(o).err = "ErrInvalidOutcome"
        THEN /\ httpReq' = [httpReq EXCEPT ![m] =
                   [r EXCEPT !.pc = "done", !.status = "400", !.err = Report(o).err]]
             /\ UNCHANGED rotationVars
        ELSE /\ httpReq' = [httpReq EXCEPT ![m] =
                   [r EXCEPT !.pc = "called", !.arg = Report(o).arg, !.err = Report(o).err]]
             /\ MutatorCall(m, "ReportOutcome")

\* the /report handler: Report has returned nil, 200 is written
HandleReportReturn(m) ==
  /\ httpReq[m].pc = "called" /\ mut[m].pc = "idle"
  /\ httpReq' = [httpReq EXCEPT ![m].pc = "done", ![m].status = "200"]
  /\ UNCHANGED rotationVars

\* the buckets a response may list: at most MaxListed, no bucket twice
ListedValues == {<<FZero, 0>>, <<FOne, MaxTs>>}
ListedBucket ==
  {[RowId |-> row, ColId |-> col, Prob |-> v[1], LastUpdateTimeMs |-> v[2]] :
     row \in Rows, col \in Cols, v \in ListedValues}
ListedBuckets ==
  {bs \in UNION {[1..n -> ListedBucket] : n \in 0..MaxListed} :
     \A i \in 1..Len(bs), j \in 1..Len(bs) :
       i # j => <<bs[i].RowId, bs[i].ColId>> # <<bs[j].RowId, bs[j].ColId>>}

\* state client, receiver goroutine: stream.Recv returns a response, for the
\* seed of main, of secondary, or of neither
StreamRecv(r) ==
  /\ incoming = NoResp
  /\ incoming' = r
  /\ UNCHANGED <<now, main, secondary, nextFire, tickerC, stopRotation, rotPc, rotSeed, mut>>
  /\ UNCHANGED <<mainStructure, secondaryStructure, nObj, nCall, secondarySince>>

\* counting structure, UpdateBucket: probability and time are overwritten
StructureUpdateBucket(st, rowID, colID, prob, ts) ==
  [st EXCEPT !.buckets[<<rowID, colID>>] = [Prob |-> prob, LastUpdateTimeMs |-> ts]]

\* applyUpdate on one structure: UpdateBucket for each bucket, in order
RECURSIVE applyUpdateStructure(_, _)
applyUpdateStructure(st, bs) ==
  IF bs = <<>> THEN st
  ELSE applyUpdateStructure(
         StructureUpdateBucket(st, Head(bs).RowId, Head(bs).ColId, Head(bs).Prob,
                               Head(bs).LastUpdateTimeMs),
         Tail(bs))

\* onStateUpdate under RLock: the main structure if its seed is the
\* response's, else the secondary if its seed is, else nothing
OnStateUpdate ==
  /\ incoming # NoResp
  /\ IF main = incoming.seed
     THEN /\ mainStructure' = applyUpdateStructure(mainStructure, incoming.buckets)
          /\ UNCHANGED secondaryStructure
     ELSE IF secondary = incoming.seed
     THEN /\ secondaryStructure' = applyUpdateStructure(secondaryStructure, incoming.buckets)
          /\ UNCHANGED mainStructure
     ELSE UNCHANGED <<mainStructure, secondaryStructure>>
  /\ incoming' = NoResp
  /\ UNCHANGED <<now, main, secondary, nextFire, tickerC, stopRotation, rotPc, rotSeed, mut>>
  /\ UNCHANGED <<nObj, nCall, secondarySince>>

\* ----------------------------------------------- the trackers of the fabric
\* Tracker t holds a state client whose stream is stream t of the service.
\* The trackers of the fabric hold the same (main, secondary) pair, so the
\* pair is kept once; no rotation happens while the fabric is observed.
\* With Lambda = 0 a bucket's timestamp plays no part in its probability,
\* and only the probability of each bucket is kept.
TrackerIds == ClientIds

\* the column the reported identifier hashes to in a row of the structure
\* with this seed: the same on every process
Column(seed, row) == (seed + row) % (MaxCol + 1)

\* the state client's outbound queue never overflows under the load of
\* MaxReport reports (the program's capacity is 1024)
SendChCap == 2 + 2 * MaxReport

\* Client.SendDeltaUpdate and Client.RequestFullState: a non-blocking send,
\* the request is dropped when the queue is full
SendDeltaUpdateDropOldest(q, seed, deltas) ==
  IF Len(q) < SendChCap THEN Append(q, DeltaUpdate(seed, deltas))
  ELSE Append(Tail(q), DeltaUpdate(seed, deltas))
SendDeltaUpdate(q, seed, deltas) ==
  IF Len(q) < SendChCap THEN Append(q, DeltaUpdate(seed, deltas)) ELSE q
RequestFullState(q, seed) ==
  IF Len(q) < SendChCap THEN Append(q, StateRequest(seed)) ELSE q

\* counting structure, a reported failure: the probability grows by Pi,
\* clamped to 1
FailureProb(p) == IF FLt(FOne, FAdd(p, Num(Pi))) THEN FOne ELSE FAdd(p, Num(Pi))
\* the delta the structure reports for a change from p to q
DeltaOf(p, q) == IF p.nan \/ q.nan THEN NaN ELSE Num(q.v - p.v)

\* counting structure, UpdateBucket: the probability is overwritten
UpdateBucket(st, seed, rowID, colID, prob) ==
  [st EXCEPT ![<<seed, rowID, colID>>] = prob]

\* applyUpdate: UpdateBucket for each bucket of the response, in order
RECURSIVE applyUpdate(_, _, _)
applyUpdate(st, seed, bs) ==
  IF bs = <<>> THEN st
  ELSE applyUpdate(UpdateBucket(st, seed, Head(bs).RowId, Head(bs).ColId, Head(bs).Prob),
                   seed, Tail(bs))

\* onStateUpdate: the response is applied to the structure whose seed it carries,
\* or discarded
onStateUpdate(st, r) ==
  IF main = r.seed THEN applyUpdate(st, r.seed, r.buckets)
  ELSE IF secondary = r.seed THEN applyUpdate(st, r.seed, r.buckets)
  ELSE st

\* ReportOutcome(failure) on tracker t: the bucket of the identifier in
\* mainStructure, then the one in secondaryStructure, each reporting its
\* delta to the state client
ReportOutcome(t) ==
  /\ nRep < MaxReport
  /\ LET kM == <<main, 0, Column(main, 0)>>
         kS == <<secondary, 0, Column(secondary, 0)>>
         pM == structs[t][kM]
         pS == structs[t][kS]
         dM == BucketDelta(0, Column(main, 0), DeltaOf(pM, FailureProb(pM)), now)
         dS == BucketDelta(0, Column(secondary, 0), DeltaOf(pS, FailureProb(pS)), now)
         q1 == IF FailureProb(pM) = pM THEN sendCh[t]
               ELSE SendDeltaUpdate(sendCh[t], main, <<dM>>)
         q2 == IF FailureProb(pS) = pS THEN q1
               ELSE SendDeltaUpdate(q1, secondary, <<dS>>)
     IN /\ structs' = [structs EXCEPT ![t] =
                         [@ EXCEPT ![kM] = FailureProb(pM), ![kS] = FailureProb(pS)]]
        /\ sendCh' = [sendCh EXCEPT ![t] = q2]
  /\ nRep' = nRep + 1

\* counting structure, RegisterRequest with Lambda = 0: the final
\* probability is the least of the identifier's buckets, one per row, and
\* should_throttle is rand01() < final probability; the results it may give
FinalProbability(st, seed) ==
  LET ps == {st[<<seed, row, Column(seed, row)>>] : row \in Rows}
  IN CHOOSE p \in ps : \A q \in ps : ~FLt(q, p)
StructureRegisterRequest(st, seed) ==
  LET p == FinalProbability(st, seed)
  IN {[FinalProbability |-> p, ShouldThrottle |-> b] :
        b \in {x \in BOOLEAN : (x => FLt(FZero, p)) /\ (~x => FLt(p, FOne))}}

\* fairService.Register: the response carries the tracker's result
NoRegister == [ShouldThrottle |-> FALSE, Stats |-> NaN]
ServiceRegisterNegated(result) ==
  [ShouldThrottle |-> ~result.ShouldThrottle, Stats |-> result.FinalProbability]
ServiceRegister(result) ==
  [ShouldThrottle |-> result.ShouldThrottle, Stats |-> result.FinalProbability]

\* /register on tracker t: FairnessTracker.RegisterRequest returns the
\* result of mainStructure; with Lambda = 0 the calls on mainStructure and
\* secondaryStructure change no bucket and report no delta
RegisterRequest(t) ==
  /\ Cardinality({u \in TrackerIds : regResult[u] # NoRegister}) < MaxRegister
  /\ regResult[t] = NoRegister
  /\ \E result \in StructureRegisterRequest(structs[t], main) :
       regResult' = [regResult EXCEPT ![t] = ServiceRegister(result)]
  /\ UNCHANGED <<structs, sendCh, nRep, httpReq, reportedAt, lastRecv, svcStop>>

\* state client, sender goroutine: a request is taken from the outbound
\* queue and sent on the stream
ClientSend(t) ==
  /\ StreamOpen(t) /\ sendCh[t] # <<>> /\ Len(inbound[t]) < InCap
  /\ inbound' = [inbound EXCEPT ![t] = Append(@, Head(sendCh[t]))]
  /\ sendCh' = [sendCh EXCEPT ![t] = Tail(@)]
  /\ UNCHANGED <<syncPc, req, resp, ctxDone, senderPc, nReq, structs, nRep>>

\* the service's stream.Send of a response, received at once by the state
\* client's receiver goroutine, which calls the tracker's onStateUpdate
ClientRecv(t) ==
  /\ SenderSend(t)
  /\ structs' = [structs EXCEPT ![t] = onStateUpdate(@, Head(Send[t].q))]
  /\ UNCHANGED <<sendCh, nRep>>

\* ------------------------------------------------ state client (run-loop)
\* The state client of one tracker (tracker 1): its run-loop, and the
\* sender and receiver goroutines of every stream it has established.  The
\* goroutines of a stream outlive connectAndStream: nothing stops them when
\* it returns, they end on an error of their stream or when ctx is done.
StreamIds == 1..MaxConnect
NoStream == [state |-> "none", sender |-> "none", receiver |-> "none",
             errCh |-> 0, sent |-> <<>>]
\* errCh := make(chan error, 2), written with select/default
ErrChCap == 2
ErrChSend(n) == IF n < ErrChCap THEN n + 1 ELSE n

\* local-only mode: no state client
NoClient ==
  /\ runPc = "none" /\ ctxCancelled = FALSE /\ gen = 0
  /\ stream = [g \in StreamIds |-> NoStream]
  /\ stopPc = "none" /\ nProd = 0

\* NewClient and Start: the run-loop is at the top of its loop
ClientStarted ==
  /\ runPc = "loop" /\ ctxCancelled = FALSE /\ gen = 0
  /\ stream = [g \in StreamIds |-> NoStream]
  /\ stopPc = "none" /\ nProd = 0

\* run: ctx is done at the top of the loop
RunLoopCancelled ==
  /\ runPc = "loop" /\ ctxCancelled
  /\ runPc' = "closed"
  /\ UNCHANGED <<ctxCancelled, gen, stream, stopPc, nProd, sendCh>>

\* a run-loop that does not look at ctx at the top of the loop
RunLoopNoCtxCheck ==
  /\ runPc = "loop"
  /\ runPc' = "connecting"
  /\ UNCHANGED <<ctxCancelled, gen, stream, stopPc, nProd, sendCh>>

\* run: ctx is not done at the top of the loop (the default case):
\* connectAndStream is called
RunLoopDefault ==
  /\ runPc = "loop" /\ ~ctxCancelled
  /\ runPc' = "connecting"
  /\ UNCHANGED <<ctxCancelled, gen, stream, stopPc, nProd, sendCh>>

\* run, connectAndStream: the stream is established and its two goroutines
\* are started
RunConnect ==
  /\ runPc = "connecting" /\ ~ctxCancelled /\ gen < MaxConnect
  /\ gen' = gen + 1
  /\ stream' = [stream EXCEPT ![gen + 1] =
                  [state |-> "up", sender |-> "run", receiver |-> "run",
                   errCh |-> 0, sent |-> <<>>]]
  /\ runPc' = "streaming"
  /\ UNCHANGED <<ctxCancelled, stopPc, nProd, sendCh>>

\* run, connectAndStream: grpc.NewClient or client.Sync fails, as
\* client.Sync(c.ctx) does when c.ctx is done
RunConnectError ==
  /\ runPc = "connecting"
  /\ runPc' = "backoff"
  /\ UNCHANGED <<ctxCancelled, gen, stream, stopPc, nProd, sendCh>>

\* connectAndStream: case err := <-errCh: return err
RunStreamErrorNoBackoff ==
  /\ runPc = "streaming" /\ stream[gen].errCh > 0
  /\ stream' = [stream EXCEPT ![gen].errCh = @ - 1]
  /\ runPc' = "loop"
  /\ UNCHANGED <<ctxCancelled, gen, stopPc, nProd, sendCh>>
RunStreamError ==
  /\ runPc = "streaming" /\ stream[gen].errCh > 0
  /\ stream' = [stream EXCEPT ![gen].errCh = @ - 1]
  /\ runPc' = "backoff"
  /\ UNCHANGED <<ctxCancelled, gen, stopPc, nProd, sendCh>>

\* connectAndStream: case <-c.ctx.Done(): return c.ctx.Err()
RunStreamCancelled ==
  /\ runPc = "streaming" /\ ctxCancelled
  /\ runPc' = "backoff"
  /\ UNCHANGED <<ctxCancelled, gen, stream, stopPc, nProd, sendCh>>

\* run: case <-time.After(5 * time.Second): continue
RunBackoffElapsed ==
  /\ runPc = "backoff"
  /\ runPc' = "loop"
  /\ UNCHANGED <<ctxCancelled, gen, stream, stopPc, nProd, sendCh>>

\* run: case <-c.ctx.Done(): return, during the backoff
RunBackoffCancelled ==
  /\ runPc = "backoff" /\ ctxCancelled
  /\ runPc' = "closed"
  /\ UNCHANGED <<ctxCancelled, gen, stream, stopPc, nProd, sendCh>>

\* sender goroutine of stream g: case req := <-c.sendCh, stream.Send(req)
\* succeeds
StreamSenderSend(g) ==
  /\ stream[g].sender = "run" /\ sendCh[1] # <<>> /\ stream[g].state = "up"
  /\ stream' = [stream EXCEPT ![g].sent = Append(@, Head(sendCh[1]))]
  /\ sendCh' = [sendCh EXCEPT ![1] = Tail(@)]
  /\ UNCHANGED <<runPc, ctxCancelled, gen, stopPc, nProd>>

\* sender goroutine of stream g: case req := <-c.sendCh, stream.Send(req)
\* fails; the error is offered to errCh and the goroutine returns
StreamSenderSendError(g) ==
  /\ stream[g].sender = "run" /\ sendCh[1] # <<>> /\ stream[g].state # "up"
  /\ stream' = [stream EXCEPT ![g].sender = "done", ![g].errCh = ErrChSend(@)]
  /\ sendCh' = [sendCh EXCEPT ![1] = Tail(@)]
  /\ UNCHANGED <<runPc, ctxCancelled, gen, stopPc, nProd>>

\* sender goroutine of stream g: case <-c.ctx.Done(): return
StreamSenderCancelled(g) ==
  /\ stream[g].sender = "run" /\ ctxCancelled
  /\ stream' = [stream EXCEPT ![g].sender = "done"]
  /\ UNCHANGED <<runPc, ctxCancelled, gen, stopPc, nProd, sendCh>>

\* receiver goroutine of stream g: stream.Recv fails (io.EOF or another
\* error); the error is offered to errCh and the goroutine returns
StreamReceiverError(g) ==
  /\ stream[g].receiver = "run" /\ (stream[g].state # "up" \/ ctxCancelled)
  /\ stream' = [stream EXCEPT ![g].receiver = "done", ![g].errCh = ErrChSend(@)]
  /\ UNCHANGED <<runPc, ctxCancelled, gen, stopPc, nProd, sendCh>>

\* the stream ends: the server returns from Sync ("eof"), or the connection
\* fails ("broken")
StreamEnds(g, how) ==
  /\ stream[g].state = "up"
  /\ stream' = [stream EXCEPT ![g].state = how]
  /\ UNCHANGED <<runPc, ctxCancelled, gen, stopPc, nProd, sendCh>>

\* Stop: cancel, then wg.Wait()
Stop ==
  /\ stopPc = "none" /\ runPc # "none"
  /\ ctxCancelled' = TRUE
  /\ stopPc' = "waiting"
  /\ UNCHANGED <<runPc, gen, stream, nProd, sendCh>>

\* Stop: wg.Wait() returns once run has returned
StopReturn ==
  /\ stopPc = "waiting" /\ runPc = "closed"
  /\ stopPc' = "returned"
  /\ UNCHANGED <<runPc, ctxCancelled, gen, stream, nProd, sendCh>>

\* the tracker hands a request to the client: a delta of a report
\* (createStructure's report function) or the full-state request of a
\* rotation
ClientRequests ==
  {DeltaUpdate(main, <<BucketDelta(0, Column(main, 0), Num(Pi), 0)>>),
   StateRequest(secondary)}
Produce(r) ==
  /\ nProd < MaxProduce
  /\ nProd' = nProd + 1
  /\ sendCh' = [sendCh EXCEPT ![1] =
                  IF r.type = "StateRequest" THEN RequestFullState(@, r.seed)
                  ELSE SendDeltaUpdate(@, r.seed, r.deltas)]
  /\ UNCHANGED <<runPc, ctxCancelled, gen, stream, stopPc>>

\* no state client: local-only mode
FabricIdle ==
  /\ structs = [t \in TrackerIds |-> [k \in Keys |-> FZero]]
  /\ sendCh = [t \in TrackerIds |-> <<>>]
  /\ nRep = 0
  /\ httpReq = [m \in MutatorIds |-> NoHttp]
  /\ reportedAt = {}
  /\ regResult = [t \in TrackerIds |-> NoRegister]
  /\ lastRecv = [c \in ClientIds |-> <<>>]
  /\ svcStop = "none"
  /\ NoClient

\* the trackers just built with a state client: the full state of both
\* seeds is requested
FabricInit ==
  /\ structs = [t \in TrackerIds |-> [k \in Keys |-> FZero]]
  /\ sendCh = [t \in TrackerIds |->
                 RequestFullState(RequestFullState(<<>>, main), secondary)]
  /\ nRep = 0
  /\ httpReq = [m \in MutatorIds |-> NoHttp]
  /\ reportedAt = {}
  /\ regResult = [t \in TrackerIds |-> NoRegister]
  /\ lastRecv = [c \in ClientIds |-> <<>>]
  /\ svcStop = "none"
  /\ NoClient

TrackerInit == NewFairnessTracker(0) /\ FabricIdle

\* a panic ends the process: nothing runs after it
Running == panic = "none"

\* the hub used as in its test: any task may call Register, Unregister and
\* Broadcast, and readers drain the queues at their own pace
HubNext ==
  \/ \E c \in ClientIds : Running /\ HubRegister(c) /\ UNCHANGED notHub
  \/ \E c \in ClientIds : Running /\ HubUnregister(c) /\ UNCHANGED notHub
  \/ \E b \in broadcast : Running /\ HubBroadcast(b) /\ UNCHANGED notHub
  \/ \E c \in ClientIds : Running /\ HubOffer(c) /\ UNCHANGED notHub
  \/ Running /\ HubRangeDone /\ UNCHANGED notHub
  \/ \E c \in ClientIds : Running /\ Register(c) /\ UNCHANGED notHub
  \/ \E c \in ClientIds : Running /\ Unregister(c) /\ UNCHANGED notHub
  \/ /\ Running /\ nMsg < MaxMsg
     /\ Broadcast(0, [seed |-> nMsg + 1, buckets |-> <<>>])
     /\ nMsg' = nMsg + 1
     /\ UNCHANGED notHub
  \/ \E c \in ClientIds : Running /\ Receive(c) /\ UNCHANGED notHub

InitHub == StoreInit /\ HubInit /\ SvcInit /\ TrackerInit
SpecHub == InitHub /\ [][HubNext]_vars

\* the hub with its loop running: the goroutine of Run is scheduled, and
\* its select, which picks at random among the ready cases, does not pass a
\* waiting caller by for ever.  Nothing is assumed of the readers.
BroadcastCalls == {[from |-> 0, msg |-> [seed |-> n, buckets |-> <<>>]] : n \in 1..MaxMsg}
HubFairness ==
  /\ \A c \in ClientIds : SF_vars(Running /\ HubRegister(c) /\ UNCHANGED notHub)
  /\ \A c \in ClientIds : SF_vars(Running /\ HubUnregister(c) /\ UNCHANGED notHub)
  /\ \A b \in BroadcastCalls : SF_vars(Running /\ HubBroadcast(b) /\ UNCHANGED notHub)
  /\ WF_vars(\/ \E c \in ClientIds : Running /\ HubOffer(c) /\ UNCHANGED notHub
             \/ Running /\ HubRangeDone /\ UNCHANGED notHub)
SpecHubFair == InitHub /\ [][HubNext]_vars /\ HubFairness

\* the state service: the hub loop, one Sync handler and sender goroutine
\* per stream, and the peers at the other end of the streams
SvcNext ==
  \/ \E c \in ClientIds : Running /\ HubRegister(c) /\ UNCHANGED <<storeVars, svcVars, trackerVars>>
  \/ \E c \in ClientIds : Running /\ HubUnregister(c) /\ UNCHANGED <<storeVars, svcVars, trackerVars>>
  \/ \E b \in broadcast : Running /\ HubBroadcast(b) /\ UNCHANGED <<storeVars, svcVars, trackerVars>>
  \/ \E c \in ClientIds : Running /\ HubOffer(c) /\ UNCHANGED <<storeVars, svcVars, trackerVars>>
  \/ Running /\ HubRangeDone /\ UNCHANGED <<storeVars, svcVars, trackerVars>>
  \/ \E c \in ClientIds : Running /\ SyncRegister(c) /\ UNCHANGED <<storeVars, trackerVars>>
  \/ \E c \in ClientIds : Running /\ SyncStartSender(c) /\ UNCHANGED <<storeVars, hubVars, trackerVars>>
  \/ \E c \in ClientIds : Running /\ SyncRecvEOF(c) /\ UNCHANGED <<storeVars, trackerVars>>
  \/ \E c \in ClientIds : Running /\ SyncRecvError(c) /\ UNCHANGED <<storeVars, trackerVars>>
  \/ \E c \in ClientIds : Running /\ SyncRecvDeltaUpdate(c) /\ UNCHANGED <<storeVars, hubVars, trackerVars>>
  \/ \E c \in ClientIds : Running /\ SyncApplyDelta(c) /\ UNCHANGED <<storeCalls, trackerVars>>
  \/ \E c \in ClientIds : Running /\ SyncRecvStateRequest(c) /\ UNCHANGED <<storeCalls, hubVars, trackerVars>>
  \/ \E c \in ClientIds : Running /\ SyncSendReply(c) /\ UNCHANGED <<storeVars, trackerVars>>
  \/ \E c \in ClientIds : Running /\ SyncReplyCancelled(c) /\ UNCHANGED <<storeVars, trackerVars>>
  \/ \E c \in ClientIds : Running /\ SyncRecvUnknown(c) /\ UNCHANGED <<storeVars, hubVars, trackerVars>>
  \/ \E c \in ClientIds : Running /\ SyncReturn(c) /\ UNCHANGED <<storeVars, hubVars, trackerVars>>
  \/ \E c \in ClientIds : Running /\ SenderRangeEnd(c) /\ UNCHANGED <<storeVars, hubVars, trackerVars>>
  \/ \E c \in ClientIds : Running /\ SenderSend(c) /\ UNCHANGED <<storeVars, trackerVars>>
  \/ \E c \in ClientIds : Running /\ SenderSendError(c) /\ UNCHANGED <<storeVars, trackerVars>>
  \/ \E c \in ClientIds, r \in PeerRequests :
       Running /\ PeerSend(c, r) /\ UNCHANGED <<storeVars, hubVars, trackerVars>>
  \/ \E c \in ClientIds : Running /\ PeerCloseSend(c) /\ UNCHANGED <<storeVars, hubVars, trackerVars>>
  \/ \E c \in ClientIds : Running /\ PeerCancel(c) /\ UNCHANGED <<storeVars, hubVars, trackerVars>>

\* the steps the service takes by itself: the hub loop, the handlers and the
\* sender goroutines, but no step of a peer
ServiceStep ==
  \/ \E c \in ClientIds :
       \/ HubRegister(c) \/ HubUnregister(c) \/ HubOffer(c)
       \/ SyncStartSender(c) \/ SyncRecvEOF(c) \/ SyncRecvError(c) \/ SyncRecvDeltaUpdate(c)
       \/ SyncApplyDelta(c) \/ SyncRecvStateRequest(c) \/ SyncSendReply(c)
       \/ SyncReplyCancelled(c) \/ SyncRecvUnknown(c) \/ SyncReturn(c)
       \/ SenderSend(c) \/ SenderSendError(c) \/ SenderRangeEnd(c)
  \/ \E b \in broadcast : HubBroadcast(b)
  \/ HubRangeDone

InitSvc == StoreInit /\ HubInit /\ SvcInit /\ TrackerInit
SpecSvc == InitSvc /\ [][SvcNext]_vars

\* the service with outbound queues of capacity OrderCap
InitOrder == StoreInit /\ NewHub(OrderCap) /\ SvcInit /\ TrackerInit
SpecOrder == InitOrder /\ [][SvcNext]_vars

\* what the peer of stream c holds after stream.Send delivered msg: each
\* bucket of the message replaces what the peer had for its (seed, row, col)
BucketKey(seed, b) == <<seed, b.RowId, b.ColId>>
Delivered(m, msg) ==
  LET ks == {BucketKey(msg.seed, msg.buckets[i]) : i \in DOMAIN msg.buckets}
      last(k) == CHOOSE i \in DOMAIN msg.buckets :
                   /\ BucketKey(msg.seed, msg.buckets[i]) = k
                   /\ \A j \in DOMAIN msg.buckets :
                        BucketKey(msg.seed, msg.buckets[j]) = k => j <= i
  IN [k \in (DOMAIN m) \cup ks |-> IF k \in ks THEN msg.buckets[last(k)] ELSE m[k]]

\* the requests of peers that only submit deltas
DeltaRequests == {r \in PeerRequests : r.type = "DeltaUpdate"}

\* the service with peers that submit deltas and keep their streams open:
\* the hub loop, the handlers and the sender goroutines, what each sender
\* delivered being recorded per bucket
recvFrame == <<storeVars, rotationVars, fabricVars, clientVars, httpReq, reportedAt, regResult, svcStop>>
DeliverNext ==
  \/ \E c \in ClientIds : Running /\ HubRegister(c) /\ UNCHANGED <<storeVars, svcVars, trackerVars>>
  \/ \E b \in broadcast : Running /\ HubBroadcast(b) /\ UNCHANGED <<storeVars, svcVars, trackerVars>>
  \/ \E c \in ClientIds : Running /\ HubOffer(c) /\ UNCHANGED <<storeVars, svcVars, trackerVars>>
  \/ Running /\ HubRangeDone /\ UNCHANGED <<storeVars, svcVars, trackerVars>>
  \/ \E c \in ClientIds : Running /\ SyncRegister(c) /\ UNCHANGED <<storeVars, trackerVars>>
  \/ \E c \in ClientIds : Running /\ SyncStartSender(c) /\ UNCHANGED <<storeVars, hubVars, trackerVars>>
  \/ \E c \in ClientIds : Running /\ SyncRecvDeltaUpdate(c) /\ UNCHANGED <<storeVars, hubVars, trackerVars>>
  \/ \E c \in ClientIds : Running /\ SyncApplyDelta(c) /\ UNCHANGED <<storeCalls, trackerVars>>
  \/ \E c \in ClientIds : Running /\ SenderRangeEnd(c) /\ UNCHANGED <<storeVars, hubVars, trackerVars>>
  \/ \E c \in ClientIds :
       /\ Running /\ SenderSend(c)
       /\ lastRecv' = [lastRecv EXCEPT ![c] = Delivered(@, Head(Send[c].q))]
       /\ UNCHANGED recvFrame
  \/ \E c \in ClientIds, r \in DeltaRequests :
       Running /\ PeerSend(c, r) /\ UNCHANGED <<storeVars, hubVars, trackerVars>>
SpecDeliver == InitSvc /\ [][DeliverNext]_vars

\* the same service with outbound queues of capacity OrderCap and peers that
\* also request the full state of a seed; a DeltaUpdate may carry two deltas
\* for one bucket
RepeatedDelta ==
  DeltaUpdate(0, <<BucketDelta(0, 0, Num(1), 0), BucketDelta(0, 0, Num(1), MaxTs)>>)
ReplyNext ==
  \/ DeliverNext
  \/ \E c \in ClientIds : Running /\ SyncRecvStateRequest(c) /\ UNCHANGED <<storeCalls, hubVars, trackerVars>>
  \/ \E c \in ClientIds : Running /\ SyncSendReply(c) /\ UNCHANGED <<storeVars, trackerVars>>
  \/ \E c \in ClientIds, r \in {RepeatedDelta, StateRequest(0)} :
       Running /\ PeerSend(c, r) /\ UNCHANGED <<storeVars, hubVars, trackerVars>>
SpecReply == InitOrder /\ [][ReplyNext]_vars

\* main of the state service: the stop signal arrives and GracefulStop is
\* called; the server accepts no new stream and waits for the Sync calls
\* under way
Shutdown ==
  /\ svcStop = "none"
  /\ svcStop' = "stopping"
\* GracefulStop returns once every Sync call has returned; the store is
\* stopped and main returns, which ends the process and the hub loop with it
GracefulStopReturn ==
  /\ svcStop = "stopping"
  /\ \A c \in ClientIds : syncPc[c] \in {"idle", "returned"}
  /\ svcStop' = "exited"

\* the service until its process exits: peers open streams while the server
\* accepts them, submit deltas, and close their sending side when they like
Serving == Running /\ svcStop # "exited"
shutdownFrame == <<storeVars, hubVars, svcVars, rotationVars, fabricVars, clientVars,
                   httpReq, reportedAt, regResult, lastRecv>>
ShutdownNext ==
  \/ \E c \in ClientIds : Serving /\ HubRegister(c) /\ UNCHANGED <<storeVars, svcVars, trackerVars>>
  \/ \E c \in ClientIds : Serving /\ HubUnregister(c) /\ UNCHANGED <<storeVars, svcVars, trackerVars>>
  \/ \E b \in broadcast : Serving /\ HubBroadcast(b) /\ UNCHANGED <<storeVars, svcVars, trackerVars>>
  \/ \E c \in ClientIds : Serving /\ HubOffer(c) /\ UNCHANGED <<storeVars, svcVars, trackerVars>>
  \/ Serving /\ HubRangeDone /\ UNCHANGED <<storeVars, svcVars, trackerVars>>
  \/ \E c \in ClientIds :
       Serving /\ svcStop = "none" /\ SyncRegister(c) /\ UNCHANGED <<storeVars, trackerVars>>
  \/ \E c \in ClientIds : Serving /\ SyncStartSender(c) /\ UNCHANGED <<storeVars, hubVars, trackerVars>>
  \/ \E c \in ClientIds : Serving /\ SyncRecvEOF(c) /\ UNCHANGED <<storeVars, trackerVars>>
  \/ \E c \in ClientIds : Serving /\ SyncRecvDeltaUpdate(c) /\ UNCHANGED <<storeVars, hubVars, trackerVars>>
  \/ \E c \in ClientIds : Serving /\ SyncApplyDelta(c) /\ UNCHANGED <<storeCalls, trackerVars>>
  \/ \E c \in ClientIds : Serving /\ SyncReturn(c) /\ UNCHANGED <<storeVars, hubVars, trackerVars>>
  \/ \E c \in ClientIds : Serving /\ SenderRangeEnd(c) /\ UNCHANGED <<storeVars, hubVars, trackerVars>>
  \/ \E c \in ClientIds : Serving /\ SenderSend(c) /\ UNCHANGED <<storeVars, trackerVars>>
  \/ \E c \in ClientIds : Serving /\ SenderSendError(c) /\ UNCHANGED <<storeVars, trackerVars>>
  \/ \E c \in ClientIds, r \in DeltaRequests :
       Serving /\ PeerSend(c, r) /\ UNCHANGED <<storeVars, hubVars, trackerVars>>
  \/ \E c \in ClientIds : Serving /\ PeerCloseSend(c) /\ UNCHANGED <<storeVars, hubVars, trackerVars>>
  \/ Serving /\ Shutdown /\ UNCHANGED shutdownFrame
  \/ Serving /\ GracefulStopReturn /\ UNCHANGED shutdownFrame
SpecShutdown == InitSvc /\ [][ShutdownNext]_vars

\* the store used through its interface, as in its test: any sequence of at
\* most MaxOps calls
NextStore ==
  \/ \E seed \in Seeds, rowID \in Rows, colID \in Cols, d \in DeltaProbs, ts \in Timestamps :
       nOps < MaxOps /\ CallApplyDelta(seed, rowID, colID, d, ts) /\ UNCHANGED notStore
  \/ \E seed \in Seeds : nOps < MaxOps /\ CallGetSeed(seed) /\ UNCHANGED notStore
  \/ \E seed \in 0..(MaxSeed + 1) : nOps < MaxOps /\ CallEvictBefore(seed) /\ UNCHANGED notStore
  \/ \E t \in EvictionTTLMs..MaxNow : nOps < MaxOps /\ CallRunEviction(t) /\ UNCHANGED notStore
InitStore == StoreInit /\ HubInit /\ SvcInit /\ TrackerInit
SpecStore == InitStore /\ [][NextStore]_vars

\* the store and its eviction sweep, run at any wall-clock time from 0 on:
\* a time below EvictionTTLMs is a TTL that reaches back before the epoch
EvictNext ==
  \/ \E seed \in Seeds, rowID \in Rows, colID \in Cols, d \in DeltaProbs, ts \in Timestamps :
       nOps < MaxOps /\ CallApplyDelta(seed, rowID, colID, d, ts) /\ UNCHANGED notStore
  \/ \E t \in 0..MaxNow : nOps < MaxOps /\ CallRunEviction(t) /\ UNCHANGED notStore
SpecEvict == InitStore /\ [][EvictNext]_vars

\* the store's callers as goroutines that take the lock and run the calls
\* statement by statement
LockNext ==
  \/ \E g \in Goroutines, seed \in Seeds, colID \in Cols, d \in LockDeltaProbs :
       /\ nOps < MaxLockOps
       /\ StoreCall(g, "ApplyDelta", seed, 0, colID, d, MaxTs)
       /\ UNCHANGED notStore
  \/ \E g \in Goroutines, seed \in Seeds :
       nOps < MaxLockOps /\ StoreCall(g, "GetSeed", seed, 0, 0, FZero, 0) /\ UNCHANGED notStore
  \/ \E g \in Goroutines, seed \in 1..(MaxSeed + 1) :
       nOps < MaxLockOps /\ StoreCall(g, "EvictBefore", seed, 0, 0, FZero, 0) /\ UNCHANGED notStore
  \/ \E g \in Goroutines : MuRLock(g) /\ UNCHANGED notStore
  \/ \E g \in Goroutines : MuLock(g) /\ UNCHANGED notStore
  \/ \E g \in Goroutines : GetSeedLookup(g) /\ UNCHANGED notStore
  \/ \E g \in Goroutines : GetSeedRange(g) /\ UNCHANGED notStore
  \/ \E g \in Goroutines : GetSeedReturn(g) /\ UNCHANGED notStore
  \/ \E g \in Goroutines : ApplyDeltaAdd(g) /\ UNCHANGED notStore
  \/ \E g \in Goroutines : ApplyDeltaReturn(g) /\ UNCHANGED notStore
  \/ \E g \in Goroutines : EvictBeforeDelete(g) /\ UNCHANGED notStore
  \/ \E g \in Goroutines : EvictBeforeReturn(g) /\ UNCHANGED notStore
SpecLock == InitStore /\ [][LockNext]_vars

\* two stores, both new, and the deltas that are on their way to a key
InitCommute ==
  /\ buckets = EmptyMap
  /\ call = Call("NewInMemoryStore", 0, 0, 0, FZero, 0, FALSE, <<>>)
  /\ lastRetTs = [k \in Keys |-> <<>>]
  /\ nOps = 0
  /\ mu = [w |-> 0, r |-> {}]
  /\ stCall = [g \in Goroutines |-> NoCall]
  /\ \E k \in Keys, ds \in DeltaSeqs : replica = [NoReplicas EXCEPT !.key = k, !.deltas = ds]
  /\ HubInit /\ SvcInit /\ TrackerInit
CommuteNext ==
  \E r \in Replicas, i \in 1..MaxDeltas : ReplicaApplyDelta(r, i) /\ UNCHANGED notStore
SpecCommute == InitCommute /\ [][CommuteNext]_vars

\* one local tracker, built at any point of a window: its ticker, its
\* rotation goroutine and the callers of RegisterRequest and ReportOutcome
notRotation == <<storeVars, hubVars, svcVars, fabricVars, clientVars, httpVars>>
TrackerNext ==
  \/ ClockAdvance /\ UNCHANGED notRotation
  \/ TickerFire /\ UNCHANGED notRotation
  \/ RotationTick /\ UNCHANGED notRotation
  \/ RotationSwap /\ UNCHANGED notRotation
  \/ RotationStop /\ UNCHANGED notRotation
  \/ Close /\ UNCHANGED notRotation
  \/ \E m \in MutatorIds, op \in MutatorOps : MutatorCall(m, op) /\ UNCHANGED notRotation
  \/ \E m \in MutatorIds : MutatorMain(m) /\ UNCHANGED notRotation
  \/ \E m \in MutatorIds : MutatorReturn(m) /\ UNCHANGED notRotation
\* the HTTP handler in front of a tracker in local-only mode
notTracker == <<storeVars, hubVars, svcVars, fabricVars, clientVars, reportedAt, regResult, lastRecv, svcStop>>
ReportNext ==
  \/ \E m \in MutatorIds, method \in HttpMethods, id \in ClientIdStrings, o \in OutcomeStrings :
       HandleReport(m, method, id, o) /\ UNCHANGED notTracker
  \/ \E m \in MutatorIds : MutatorMain(m) /\ UNCHANGED notRotation
  \/ \E m \in MutatorIds : MutatorReturn(m) /\ UNCHANGED notRotation
  \/ \E m \in MutatorIds : HandleReportReturn(m) /\ UNCHANGED notTracker
InitReport == StoreInit /\ HubInit /\ SvcInit /\ TrackerInit
SpecReport == InitReport /\ [][ReportNext]_vars

InitTracker ==
  /\ StoreInit /\ HubInit /\ SvcInit /\ FabricIdle
  /\ \E t0 \in 0..(WindowMs - 1) : NewFairnessTracker(t0)
SpecTracker == InitTracker /\ [][TrackerNext]_vars

\* the fabric: the state service and two trackers connected to it, whose
\* streams stay up
FabricNext ==
  \/ \E c \in ClientIds : Running /\ HubRegister(c) /\ UNCHANGED <<storeVars, svcVars, trackerVars>>
  \/ \E b \in broadcast : Running /\ HubBroadcast(b) /\ UNCHANGED <<storeVars, svcVars, trackerVars>>
  \/ \E c \in ClientIds : Running /\ HubOffer(c) /\ UNCHANGED <<storeVars, svcVars, trackerVars>>
  \/ Running /\ HubRangeDone /\ UNCHANGED <<storeVars, svcVars, trackerVars>>
  \/ \E c \in ClientIds : Running /\ SyncRegister(c) /\ UNCHANGED <<storeVars, trackerVars>>
  \/ \E c \in ClientIds : Running /\ SyncStartSender(c) /\ UNCHANGED <<storeVars, hubVars, trackerVars>>
  \/ \E c \in ClientIds : Running /\ SyncRecvDeltaUpdate(c) /\ UNCHANGED <<storeVars, hubVars, trackerVars>>
  \/ \E c \in ClientIds : Running /\ SyncApplyDelta(c) /\ UNCHANGED <<storeCalls, trackerVars>>
  \/ \E c \in ClientIds : Running /\ SyncRecvStateRequest(c) /\ UNCHANGED <<storeCalls, hubVars, trackerVars>>
  \/ \E c \in ClientIds : Running /\ SyncSendReply(c) /\ UNCHANGED <<storeVars, trackerVars>>
  \/ \E c \in ClientIds : Running /\ SenderRangeEnd(c) /\ UNCHANGED <<storeVars, hubVars, trackerVars>>
  \/ \E t \in TrackerIds : Running /\ ClientSend(t) /\ UNCHANGED <<storeVars, hubVars, rotationVars, clientVars, httpVars>>
  \/ \E t \in TrackerIds : Running /\ ClientRecv(t) /\ UNCHANGED <<storeVars, rotationVars, clientVars, httpVars>>
  \/ \E t \in TrackerIds :
       /\ ReportOutcome(t) /\ reportedAt' = reportedAt \cup {t}
       /\ UNCHANGED <<storeVars, hubVars, svcVars, rotationVars, clientVars, httpReq, regResult, lastRecv, svcStop>>
InitFabric == StoreInit /\ HubInit /\ SvcInit /\ NewFairnessTracker(0) /\ FabricInit
SpecFabric == InitFabric /\ [][FabricNext]_vars

\* the fabric, with /register called on the trackers
RegisterNext ==
  \/ FabricNext
  \/ \E t \in TrackerIds :
       RegisterRequest(t) /\ UNCHANGED <<storeVars, hubVars, svcVars, rotationVars, clientVars>>
SpecRegister == InitFabric /\ [][RegisterNext]_vars

\* the steps by which the fabric delivers what is in flight: every step but
\* a new report
FabricDelivery ==
  \/ \E c \in ClientIds :
       \/ HubRegister(c) \/ HubOffer(c) \/ SyncRegister(c) \/ SyncStartSender(c)
       \/ SyncRecvDeltaUpdate(c) \/ SyncApplyDelta(c) \/ SyncRecvStateRequest(c)
       \/ SyncSendReply(c) \/ SenderRangeEnd(c) \/ ClientSend(c) \/ ClientRecv(c)
  \/ \E b \in broadcast : HubBroadcast(b)
  \/ HubRangeDone

\* the state client of one tracker: its run-loop and goroutines, the
\* streams it establishes, which may end at any time, and the tracker
\* handing it requests
\* a tracker in rotation whose state client delivers responses
UpdateNext ==
  \/ ClockAdvance /\ UNCHANGED notRotation
  \/ TickerFire /\ UNCHANGED notRotation
  \/ RotationTick /\ UNCHANGED notRotation
  \/ RotationSwap /\ UNCHANGED notRotation
  \/ \E sd \in {main, secondary, secondary + 1}, bs \in ListedBuckets :
       StreamRecv(SyncResponse(sd, bs)) /\ UNCHANGED notRotation
  \/ OnStateUpdate /\ UNCHANGED notRotation
SpecUpdate == InitTracker /\ [][UpdateNext]_vars

\* a tracker with a state client in rotation.  The rotation goroutine asks
\* for the full state of the seed it computed before it takes the rotation
\* lock
RotationTickRequest ==
  /\ RotationTick
  /\ sendCh' = [sendCh EXCEPT ![1] = RequestFullState(@, RotationSeed(now))]

\* the state client sends the oldest request of its queue; for a
\* StateRequest the service answers with the buckets it holds for the seed,
\* and the receiver goroutine has the response in hand
FullStateRoundTrip(bs) ==
  /\ sendCh[1] # <<>> /\ Head(sendCh[1]).type = "StateRequest"
  /\ StreamRecv(SyncResponse(Head(sendCh[1]).seed, bs))
  /\ sendCh' = [sendCh EXCEPT ![1] = Tail(@)]

notRotationSync == <<storeVars, hubVars, svcVars, structs, nRep, clientVars, httpVars>>
RotateSyncNext ==
  \/ ClockAdvance /\ UNCHANGED notRotation
  \/ TickerFire /\ UNCHANGED notRotation
  \/ RotationTickRequest /\ UNCHANGED notRotationSync
  \/ RotationSwap /\ UNCHANGED notRotation
  \/ \E bs \in ListedBuckets : FullStateRoundTrip(bs) /\ UNCHANGED notRotationSync
  \/ OnStateUpdate /\ UNCHANGED notRotation
SpecRotateSync == InitFabric /\ [][RotateSyncNext]_vars

notClient == <<storeVars, hubVars, svcVars, rotationVars, structs, nRep, httpVars>>
ClientStep ==
  \/ RunLoopCancelled \/ RunLoopDefault \/ RunConnect \/ RunConnectError \/ RunStreamError
  \/ RunStreamCancelled \/ RunBackoffElapsed \/ RunBackoffCancelled
  \/ StopReturn
  \/ \E g \in StreamIds :
       \/ StreamSenderSend(g) \/ StreamSenderSendError(g)
       \/ StreamSenderCancelled(g) \/ StreamReceiverError(g)
ClientNext ==
  \/ RunLoopCancelled /\ UNCHANGED notClient
  \/ RunLoopDefault /\ UNCHANGED notClient
  \/ RunConnect /\ UNCHANGED notClient
  \/ RunConnectError /\ UNCHANGED notClient
  \/ RunStreamError /\ UNCHANGED notClient
  \/ RunStreamCancelled /\ UNCHANGED notClient
  \/ RunBackoffElapsed /\ UNCHANGED notClient
  \/ RunBackoffCancelled /\ UNCHANGED notClient
  \/ \E g \in StreamIds : StreamSenderSend(g) /\ UNCHANGED notClient
  \/ \E g \in StreamIds : StreamSenderSendError(g) /\ UNCHANGED notClient
  \/ \E g \in StreamIds : StreamSenderCancelled(g) /\ UNCHANGED notClient
  \/ \E g \in StreamIds : StreamReceiverError(g) /\ UNCHANGED notClient
  \/ \E g \in StreamIds, how \in {"eof", "broken"} : StreamEnds(g, how) /\ UNCHANGED notClient
  \/ Stop /\ UNCHANGED notClient
  \/ StopReturn /\ UNCHANGED notClient
  \/ \E r \in ClientRequests : Produce(r) /\ UNCHANGED notClient
InitClient ==
  /\ StoreInit /\ HubInit /\ SvcInit /\ NewFairnessTracker(0)
  /\ structs = [t \in TrackerIds |-> [k \in Keys |-> FZero]]
  /\ sendCh = [t \in TrackerIds |->
                 IF t = 1 THEN RequestFullState(RequestFullState(<<>>, main), secondary)
                 ELSE <<>>]
  /\ nRep = 0
  /\ httpReq = [m \in MutatorIds |-> NoHttp]
  /\ reportedAt = {}
  /\ regResult = [t \in TrackerIds |-> NoRegister]
  /\ lastRecv = [c \in ClientIds |-> <<>>]
  /\ svcStop = "none"
  /\ ClientStarted
SpecClient == InitClient /\ [][ClientNext]_vars

\* ------------------------------------------------------ claims on the store
StoredKeys == {k \in Keys : HasBucket(buckets, k[1], k[2], k[3])}
InUnit(p) == ~p.nan /\ 0 <= p.v /\ p.v <= One

\* C2: every stored bucket, and every bucket ApplyDelta or GetSeed returned,
\* has a probability p with 0 <= p <= 1.
C2_ProbabilityInUnitInterval ==
  /\ \A k \in StoredKeys : InUnit(buckets[k[1]][k[2]][k[3]].Prob)
  /\ \A i \in DOMAIN call.buckets : InUnit(call.buckets[i].Prob)

\* clamp(x, 0, 1) and max as the claim writes them: min(max(x, 0), 1), with
\* math.Max / math.Min propagating NaN
FMax(a, b) == IF a.nan \/ b.nan THEN NaN ELSE IF a.v >= b.v THEN a ELSE b
FMin(a, b) == IF a.nan \/ b.nan THEN NaN ELSE IF a.v <= b.v THEN a ELSE b
Clamp01(x) == FMin(FMax(x, FZero), FOne)
Max(a, b) == IF a >= b THEN a ELSE b

\* C3: ApplyDelta(seed, row, col, d, ts) returns and stores the bucket
\* (clamp(p + d, 0, 1), max(t, ts)), (p, t) being the bucket's previous
\* probability and timestamp, or (0, 0) when this call creates the bucket;
\* no other bucket changes.
C3_ApplyDeltaAggregates ==
  [][(call'.op = "ApplyDelta" /\ nOps' # nOps) =>
       LET seed == call'.seed
           rowID == call'.row
           colID == call'.col
           had == HasBucket(buckets, seed, rowID, colID)
           p == IF had THEN buckets[seed][rowID][colID].Prob ELSE FZero
           t == IF had THEN buckets[seed][rowID][colID].LastUpdateTimeMs ELSE 0
           expected == [RowId |-> rowID, ColId |-> colID,
                        Prob |-> Clamp01(FAdd(p, call'.deltaProb)),
                        LastUpdateTimeMs |-> Max(t, call'.timestampMs)]
       IN /\ call'.buckets = <<expected>>
          /\ HasBucket(buckets', seed, rowID, colID)
          /\ buckets'[seed][rowID][colID] = expected
          /\ \A k \in Keys \ {<<seed, rowID, colID>>} :
               /\ HasBucket(buckets', k[1], k[2], k[3]) <=> HasBucket(buckets, k[1], k[2], k[3])
               /\ HasBucket(buckets, k[1], k[2], k[3]) =>
                    buckets'[k[1]][k[2]][k[3]] = buckets[k[1]][k[2]][k[3]]
  ]_vars

\* C3 witness: an ApplyDelta found its bucket, clamped the sum at 1 and kept
\* the older, larger timestamp, while another bucket was stored
C3_Witness ==
  /\ call.op = "ApplyDelta" /\ call.existed
  /\ call.deltaProb = Num(One + 1)
  /\ call.buckets[1].Prob = FOne
  /\ call.timestampMs < call.buckets[1].LastUpdateTimeMs
  /\ Cardinality(StoredKeys) >= 2

\* C4 as claimed: the timestamp returned by successive ApplyDelta calls on
\* one key never decreases, whatever store calls lie between them.
C4_ReturnedTimestampNeverDecreases ==
  [][(call'.op = "ApplyDelta" /\ nOps' # nOps) =>
       LET k == <<call'.seed, call'.row, call'.col>>
       IN lastRetTs[k] # <<>> =>
            call'.buckets[1].LastUpdateTimeMs >= lastRetTs[k][1]
  ]_vars

\* C4 as amended: between two successive ApplyDelta calls on one key with no
\* eviction of the key's seed in between (the bucket is still stored), the
\* returned timestamp does not decrease.
C4_ReturnedTimestampMonotoneWhileStored ==
  [][(call'.op = "ApplyDelta" /\ nOps' # nOps) =>
       LET k == <<call'.seed, call'.row, call'.col>>
       IN HasBucket(buckets, k[1], k[2], k[3]) =>
            /\ lastRetTs[k] # <<>>
            /\ call'.buckets[1].LastUpdateTimeMs >= lastRetTs[k][1]
  ]_vars

\* C4 witness: an ApplyDelta carrying an older timestamp than the stored one
\* returned the stored one
C4_Witness ==
  /\ call.op = "ApplyDelta" /\ call.existed
  /\ call.timestampMs < call.buckets[1].LastUpdateTimeMs
  /\ nOps >= 2

\* -------------------------------------------------------- claims on the hub
Registered(c) == Send[c].made /\ c \notin register

\* C7: every client in the hub's set when a broadcast is taken either gets
\* the message appended to its queue or is removed from the set with its
\* queue closed; and a client whose Register call has returned stays in the
\* set until it is unregistered or dropped (the two steps that close its
\* queue), so no later broadcast passes it by.
C7_BroadcastReachesEveryLiveClient ==
  /\ [](\A c \in ClientIds : (Registered(c) /\ ~Send[c].closed) => c \in clients)
  /\ [][/\ (hubPc = "select" /\ hubPc' = "range") => todo' = clients
        /\ (hubPc = "range" /\ hubPc' = "select") => todo = {}
        /\ (hubPc = "range" /\ todo' # todo) =>
             \E c \in todo \cap clients :
               /\ todo' = todo \ {c}
               /\ \/ Send'[c].q = Append(Send[c].q, message) /\ c \in clients'
                  \/ c \notin clients' /\ Send'[c].closed
               /\ \A o \in todo' : o \in clients'
     ]_vars

\* C7 witness: one broadcast was appended to one client's queue and dropped
\* another client, whose queue was full
C7_Witness ==
  /\ hubPc = "select" /\ nMsg >= 2
  /\ \E c \in ClientIds, o \in ClientIds :
       /\ c \in clients /\ Len(Send[c].q) > 0 /\ Send[c].q[Len(Send[c].q)] = message
       /\ o \in dropped /\ o \notin clients /\ Send[o].closed

\* C8: each queue is closed exactly once, at the step that removes its
\* client from the set; Unregister of a client already dropped, or already
\* unregistered, closes nothing; and a client (a record Register returned)
\* is in the set if and only if its queue is open.
C8_QueueClosedExactlyOnce ==
  /\ [](/\ panic = "none"
        /\ \A c \in ClientIds :
             /\ closes[c] <= 1
             /\ Send[c].closed <=> closes[c] = 1
             /\ c \in clients <=> (Registered(c) /\ ~Send[c].closed))
  /\ [][\A c \in ClientIds :
          (closes'[c] # closes[c]) <=> (c \in clients /\ c \notin clients')]_vars

\* C8 witness: a client dropped as slow was then unregistered twice
C8_Witness ==
  \E c \in ClientIds :
    c \in dropped /\ unregs[c] = MaxUnreg /\ closes[c] = 1 /\ c \notin unregister

\* C12: the hub loop never blocks on a client: while it runs, every
\* Register, Unregister and Broadcast call that is waiting for the loop
\* eventually returns, whether or not any client ever drains its queue.
C12_HubCallsReturn ==
  /\ \A c \in ClientIds : (c \in register) ~> (c \notin register)
  /\ \A c \in ClientIds : (c \in unregister) ~> (c \notin unregister)
  /\ \A b \in BroadcastCalls : (b \in broadcast) ~> (b \notin broadcast)

\* C12 witness: with a client's queue full and never drained since, a later
\* Broadcast call has returned and its range loop is over
C12_Witness ==
  /\ hubPc = "select" /\ broadcast = {} /\ nMsg = MaxMsg /\ message.seed = MaxMsg
  /\ \E c \in ClientIds :
       /\ Send[c].made /\ Len(Send[c].q) = Send[c].cap /\ Send[c].q[1].seed = 1
       /\ c \in dropped

\* C13: once the hub has processed Unregister(c), no later broadcast adds a
\* message to c's queue, while every other registered client receives each
\* later broadcast.
LaterBroadcastFor(o) == \E c \in ClientIds \ {o} : unregs[c] > 0
C13_UnregisteredSkippedOthersReceive ==
  [][/\ \A c \in ClientIds :
          unregs[c] > 0 => Len(Send'[c].q) <= Len(Send[c].q) /\ c \notin clients'
     /\ (hubPc = "select" /\ hubPc' = "range") => todo' = clients
     /\ (hubPc = "range" /\ todo' # todo) =>
          \E o \in todo :
            /\ todo' = todo \ {o}
            /\ LaterBroadcastFor(o) => Send'[o].q = Append(Send[o].q, message)
    ]_vars

\* C13, amended: once the hub has processed Unregister(c), no later broadcast
\* adds a message to c's queue, while every other registered client whose
\* queue has room receives each later broadcast; one whose queue is full is
\* dropped instead, its queue closed and left as it was.
C13_UnregisteredSkippedOthersOffered ==
  [][/\ \A c \in ClientIds :
          unregs[c] > 0 => Len(Send'[c].q) <= Len(Send[c].q) /\ c \notin clients'
     /\ (hubPc = "select" /\ hubPc' = "range") => todo' = clients
     /\ (hubPc = "range" /\ todo' # todo) =>
          \E o \in todo :
            /\ todo' = todo \ {o}
            /\ LaterBroadcastFor(o) =>
                 IF Len(Send[o].q) < Send[o].cap
                 THEN Send'[o].q = Append(Send[o].q, message) /\ o \in clients'
                 ELSE Send'[o].q = Send[o].q /\ Send'[o].closed /\ o \notin clients'
    ]_vars

\* C13 witness: c got the first message and was then unregistered without
\* having been dropped (so every later broadcast came after the hub
\* processed Unregister(c)); a later message is on another client's queue
\* and none was added to c's
C13_Witness ==
  \E c \in ClientIds : \E o \in ClientIds \ {c} :
    /\ unregs[c] > 0 /\ c \notin dropped /\ Send[c].closed
    /\ Len(Send[c].q) = 1 /\ Send[c].q[1].seed = 1
    /\ hubPc = "select" /\ message.seed > 1
    /\ o \in clients /\ Len(Send[o].q) > 0 /\ Send[o].q[Len(Send[o].q)] = message

\* ------------------------------------------- claims on the rotation lock
\* C14: no rotation takes effect between the main-structure update and the
\* secondary-structure update of one RegisterRequest or ReportOutcome call:
\* while a call is between its two updates the (main, secondary) pair does
\* not change, and the structure it updates second is the secondary of the
\* pair whose main it updated first.
C14_NoRotationInsideCall ==
  [][\A m \in MutatorIds :
       /\ mut[m].pc = "secondary" =>
            /\ mainStructure'.obj = mainStructure.obj
            /\ secondaryStructure'.obj = secondaryStructure.obj
            /\ main' = main /\ secondary' = secondary
       /\ (mut[m].pc = "secondary" /\ mut'[m].pc = "idle") =>
            /\ mut[m].onMain = mainStructure.obj
            /\ mut[m].id \in mainStructure.calls
            /\ mut[m].id \in secondaryStructure'.calls
    ]_vars

\* C14 witness: the rotation goroutine waits for the lock while a call has
\* updated the main structure and not yet the secondary
C14_Witness ==
  /\ rotPc = "lock"
  /\ \E m \in MutatorIds :
       /\ mut[m].pc = "secondary"
       /\ mut[m].id \in mainStructure.calls
       /\ mut[m].id \notin secondaryStructure.calls

\* C15: every RegisterRequest and ReportOutcome is applied to both the
\* current main and the current secondary structure, so at the moment a
\* structure is promoted from secondary to main it holds every call made
\* while it was the secondary.
C15_PromotedStructureIsWarm ==
  [][/\ \A m \in MutatorIds :
          (mut[m].pc = "secondary" /\ mut'[m].pc = "idle") =>
            /\ mut[m].id \in mainStructure'.calls
            /\ mut[m].id \in secondaryStructure'.calls
     /\ secondaryStructure'.obj # secondaryStructure.obj =>
          /\ mainStructure' = secondaryStructure
          /\ (secondarySince + 1)..nCall \subseteq secondaryStructure.calls
    ]_vars

\* C15 witness: the structure created as secondary at construction has been
\* promoted, and it holds calls, all of them made before the promotion
C15_Witness ==
  /\ mainStructure.obj = 2 /\ secondaryStructure.obj = 3
  /\ nCall > 0 /\ secondarySince = nCall
  /\ mainStructure.calls = 1..nCall

\* C16: a rotation handled at clock time now makes the previous secondary
\* structure, its contents unchanged, the new main; installs a fresh empty
\* structure with seed floor(now / window) + 1 as the new secondary; and
\* drops the previous main.
C16_RotationPromotesAndReplaces ==
  [][/\ (rotPc = "select" /\ rotPc' = "lock") =>
          rotSeed' = (now \div WindowMs) + 1
     /\ (rotPc = "lock" /\ rotPc' = "select") =>
          /\ main' = secondary
          /\ mainStructure' = secondaryStructure
          /\ secondary' = rotSeed
          /\ secondaryStructure'.calls = {}
          /\ secondaryStructure'.obj \notin {mainStructure.obj, secondaryStructure.obj}
          /\ mainStructure.obj \notin {mainStructure'.obj, secondaryStructure'.obj}
    ]_vars

\* C16 witness: the first rotation has been made at a time past the first
\* window: the structure that was secondary is main, with the calls it
\* held, and the new secondary is empty
C16_Witness ==
  /\ rotPc = "select" /\ nObj = 3
  /\ mainStructure.obj = 2 /\ mainStructure.calls # {}
  /\ secondaryStructure = createStructure(3)
  /\ secondary = rotSeed /\ rotSeed > 1

\* ------------------------------------------ claims on the state updates
IsListed(bs, k) == \E i \in 1..Len(bs) : <<bs[i].RowId, bs[i].ColId>> = k
ListedAs(bs, k) ==
  LET i == CHOOSE i \in 1..Len(bs) : <<bs[i].RowId, bs[i].ColId>> = k
  IN [Prob |-> bs[i].Prob, LastUpdateTimeMs |-> bs[i].LastUpdateTimeMs]
ReplacedBuckets(st, bs) ==
  [st EXCEPT !.buckets =
     [k \in Rows \X Cols |-> IF IsListed(bs, k) THEN ListedAs(bs, k) ELSE st.buckets[k]]]

C9_NoSendOnClosedQueue == panic = "none"

\* C10: when the hub has dropped a client as slow, the Sync stream serving
\* it ends.  Stated on the states where the service has nothing left to do
\* by itself (only a peer could act): there, the stream of every dropped
\* client has ended.
C10_DroppedStreamEnds ==
  (panic = "none" /\ ~ENABLED ServiceStep) =>
    \A c \in dropped : syncPc[c] = "returned"

\* ---------------------------------------------------- claims on the tracker
\* C5: in every reachable state of the tracker, after construction and after
\* any number of rotation ticks whenever they are handled, the secondary
\* seed is the main seed plus one.
C5_SeedsConsecutive == secondary = main + 1

\* C6: no RegisterRequest or ReportOutcome call runs against a (main,
\* secondary) pair whose two structures have the same seed.
C6_MutatorsNeverSeeEqualSeeds ==
  \A m \in MutatorIds : mut[m].pc # "idle" => main # secondary

\* ----------------------------------------------------- claims on the fabric
\* C1: with Lambda = 0 and no dropped message, two trackers connected to the
\* same state service and holding the same seeds converge: once everything
\* in flight has been delivered, both hold the same probability in every
\* (seed, row, col) bucket.
C1_TrackersConverge ==
  (panic = "none" /\ dropped = {} /\ ~ENABLED FabricDelivery) =>
    \A k \in Keys : structs[1][k] = structs[2][k]

\* ----------------------------------------------- claims on the state client
\* C11: each time the state client establishes a stream, on the first
\* connection and on every reconnection, full-state requests for the
\* tracker's main seed and secondary seed are sent on the new stream.
\* Stated on the states where the client has nothing left to do by itself
\* while its current stream is up: there, both requests have been sent on
\* the current stream.
SentOn(g) == {stream[g].sent[i] : i \in DOMAIN stream[g].sent}
C11_FullStateRequestedOnEveryStream ==
  (runPc = "streaming" /\ stream[gen].state = "up" /\ ~ENABLED ClientStep) =>
    {StateRequest(main), StateRequest(secondary)} \subseteq SentOn(gen)

\* C18: for each delta of a DeltaUpdate received on a stream, the service
\* performs exactly one ApplyDelta with the update's seed and then exactly
\* one Broadcast whose response carries that seed and exactly the one bucket
\* returned by that ApplyDelta: the deltas of a request are taken one at a
\* time from its head, none is left when the next request is received, the
\* step that takes a delta changes the store as one ApplyDelta of it and
\* hands the hub one response with the seed and the bucket as stored by
\* that step, and the handler makes no other change to the store or
\* Broadcast call.
BroadcastsOf(c) == {b \in broadcast : b.from = c}
C18_OneApplyOneBroadcastPerDelta ==
  [][/\ \A c \in ClientIds :
          LET taken == syncPc[c] = "deltas" /\ req[c].deltas # <<>>
                       /\ req'[c] = [req[c] EXCEPT !.deltas = Tail(@)]
              d == Head(req[c].deltas)
              seed == req[c].seed
          IN /\ req'[c] # req[c] =>
                  \/ taken
                  \/ req[c].deltas = <<>> /\ inbound[c] # <<>> /\ req'[c] = Head(inbound[c])
             /\ taken =>
                  /\ buckets' = PutBucket(buckets, seed, d.RowId,
                                   ApplyDeltaResult(buckets, seed, d.RowId, d.ColId,
                                                    d.DeltaProb, d.LastUpdateTimeMs))
                  /\ broadcast' = broadcast \cup
                        {[from |-> c,
                          msg |-> SyncResponse(seed, <<buckets'[seed][d.RowId][d.ColId]>>)]}
                  /\ BroadcastsOf(c) = {}
             /\ (\E b \in broadcast' \ broadcast : b.from = c) => taken
     /\ buckets' # buckets =>
          \E k \in ClientIds :
            /\ syncPc[k] = "deltas" /\ req[k].deltas # <<>>
            /\ req'[k].deltas = Tail(req[k].deltas)
    ]_vars

\* C18 witness: the second delta of a DeltaUpdate has been applied and its
\* bucket, as stored, waits for the hub in a Broadcast call
C18_Witness ==
  \E c \in ClientIds :
    /\ syncPc[c] = "deltas" /\ req[c].deltas = <<>>
    /\ HasBucket(buckets, req[c].seed, 0, MaxCol)
    /\ \E b \in broadcast :
         /\ b.from = c /\ b.msg.seed = req[c].seed
         /\ b.msg.buckets = <<buckets[req[c].seed][0][MaxCol]>>
         /\ b.msg.buckets[1].Prob = FOne

\* C19: a StateRequest(seed) on a stream results in one response, holding
\* the GetSeed(seed) snapshot, placed on the requesting client's outbound
\* queue only; the outbound queue of every other client is unchanged by the
\* request, and the store is unchanged.  The step that receives the request
\* builds the response from one GetSeed result and changes neither store
\* nor queues; the step that ends the handling on a stream that is not
\* cancelled appends that response to the requester's queue and changes
\* nothing else.
C19_StateRequestAnsweredToRequesterOnly ==
  [][\A c \in ClientIds :
       /\ (syncPc[c] # "reply" /\ syncPc'[c] = "reply") =>
            /\ inbound[c] # <<>> /\ Head(inbound[c]).type = "StateRequest"
            /\ resp'[c].seed = Head(inbound[c]).seed
            /\ resp'[c].buckets \in GetSeedResults(buckets, Head(inbound[c]).seed)
            /\ buckets' = buckets /\ Send' = Send
       /\ ( /\ syncPc[c] = "reply" /\ ~ctxDone[c]
            /\ \/ syncPc'[c] # "reply"
               \/ panic = "none" /\ panic' # "none" /\ Send[c].closed ) =>
            /\ Send'[c].q = Append(Send[c].q, resp[c])
            /\ \A o \in ClientIds \ {c} : Send'[o] = Send[o]
            /\ buckets' = buckets
            /\ panic' = panic
    ]_vars

\* C20: on one Sync stream, deltas are applied to the store and their
\* resulting broadcasts are published in the order the deltas were received,
\* and messages are written to a client's stream in the order they were
\* placed on its outbound queue.  Requests leave the stream's inbound side
\* from the front; the store changes by the first delta not yet applied of
\* the request in hand, and the next request is received only when no delta
\* is left and the Broadcast of the last one has returned; the hub takes a
\* response only when the loop over the clients for the previous one is
\* over; an outbound queue grows at its end only and the sender takes its
\* first message only.
C20_StreamIsFifo ==
  [][/\ \A c \in ClientIds :
          /\ inbound'[c] # inbound[c] =>
               \/ inbound[c] # <<>> /\ inbound'[c] = Tail(inbound[c])
               \/ \E r \in PeerRequests \cup {EOF} : inbound'[c] = Append(inbound[c], r)
          /\ req'[c] # req[c] =>
               \/ /\ req[c].deltas # <<>> /\ BroadcastsOf(c) = {}
                  /\ req'[c] = [req[c] EXCEPT !.deltas = Tail(@)]
                  /\ buckets' = PutBucket(buckets, req[c].seed, Head(req[c].deltas).RowId,
                                   ApplyDeltaResult(buckets, req[c].seed,
                                     Head(req[c].deltas).RowId, Head(req[c].deltas).ColId,
                                     Head(req[c].deltas).DeltaProb,
                                     Head(req[c].deltas).LastUpdateTimeMs))
                  /\ \E b \in broadcast' \ broadcast :
                       /\ b.from = c
                       /\ b.msg.buckets[1].RowId = Head(req[c].deltas).RowId
                       /\ b.msg.buckets[1].ColId = Head(req[c].deltas).ColId
               \/ /\ req[c].deltas = <<>> /\ BroadcastsOf(c) = {}
                  /\ inbound[c] # <<>> /\ req'[c] = Head(inbound[c])
          /\ Send'[c].q # Send[c].q =>
               \/ Send[c].q # <<>> /\ Send'[c].q = Tail(Send[c].q)
               \/ hubPc = "range" /\ Send'[c].q = Append(Send[c].q, message)
               \/ syncPc[c] = "reply" /\ Send'[c].q = Append(Send[c].q, resp[c])
               \/ ~Send[c].made /\ Send'[c].q = <<>>
     /\ message' # message =>
          /\ hubPc = "select" /\ todo = {}
          /\ \E b \in broadcast : b.msg = message' /\ b \notin broadcast'
    ]_vars

\* C20 witness: the responses to the two deltas of one DeltaUpdate wait on
\* a client's outbound queue in the order of the deltas, the store holding
\* both buckets
C20_Witness ==
  \E c \in ClientIds :
    /\ Len(Send[c].q) = 2
    /\ HasBucket(buckets, 0, 0, 0) /\ HasBucket(buckets, 0, 0, MaxCol)
    /\ Send[c].q[1].buckets = <<[RowId |-> 0, ColId |-> 0, Prob |-> Num(1),
                                 LastUpdateTimeMs |-> 0]>>
    /\ Send[c].q[2].buckets = <<buckets[0][0][MaxCol]>>

\* C21: whenever Sync returns, for end-of-stream, a receive error or a done
\* context, its client is absent from the hub's set with its outbound queue
\* closed, and the stream's sender task then terminates: while the process
\* runs, a sender that has not ended has a step to take, and every step it
\* can take after the return is its last (the loop over the closed, empty
\* queue ends, or the write to the ended stream fails).
C21_ReturnedStreamIsReleased ==
  \A c \in ClientIds :
    syncPc[c] = "returned" =>
      /\ c \notin clients /\ Send[c].closed
      /\ ~ENABLED SenderSend(c)
      /\ panic = "none" =>
           \/ senderPc[c] = "done"
           \/ ENABLED (SenderSendError(c) \/ SenderRangeEnd(c))

\* C21 witness: Sync has returned on a stream that was live (the hub had
\* not dropped its client), after a receive error or a done context with a
\* response still queued, and the sender has ended
C21_Witness ==
  \E c \in ClientIds :
    /\ syncPc[c] = "returned" /\ c \notin dropped /\ unregs[c] = 1
    /\ senderPc[c] = "done" /\ Send[c].closed /\ c \notin clients
    /\ inbound[c] = <<>> /\ nReq > 0

\* C22: SendDeltaUpdate and RequestFullState never block: when the state
\* client's outbound queue is at capacity the request is dropped and the
\* queue's contents are unchanged, otherwise the request is appended; so a
\* call of the tracker that hands a request to the client completes whether
\* the client is connecting, streaming, in backoff or closed.
C22_ProducersNeverBlock ==
  /\ [](\A r \in ClientRequests : nProd < MaxProduce => ENABLED Produce(r))
  /\ [][nProd' # nProd =>
          IF Len(sendCh[1]) >= SendChCap
          THEN sendCh'[1] = sendCh[1]
          ELSE \E r \in ClientRequests : sendCh'[1] = Append(sendCh[1], r)
       ]_vars

\* C22 witness: the server was never reached, the queue is at capacity and
\* more requests were handed to the client than it had room for
C22_Witness ==
  /\ runPc = "backoff" /\ gen = 0
  /\ Len(sendCh[1]) = SendChCap
  /\ nProd > SendChCap - 2

\* C23: after a connection attempt or an established stream fails for a
\* reason other than stop, the run-loop enters backoff and then makes a new
\* connection attempt; while not stopped it never remains disconnected
\* forever and never reconnects without passing through backoff.  While not
\* stopped: the run-loop goes from the top of its loop to "connecting"
\* only, leaves "connecting" for "streaming" or "backoff" only, leaves
\* "streaming" for "backoff" only, with a failed stream or an error in
\* hand, and leaves "backoff" for the top of the loop only; and in each of
\* these states the step onwards is there to take (with a failed stream,
\* the error is in errCh or the receiver is about to put it there).
C23_ReconnectsThroughBackoff ==
  /\ [](~ctxCancelled =>
          /\ (runPc = "streaming" /\ stream[gen].state # "up") =>
               ENABLED (RunStreamError \/ StreamReceiverError(gen))
          /\ runPc = "backoff" => ENABLED RunBackoffElapsed
          /\ runPc = "loop" => ENABLED RunLoopDefault
          /\ runPc = "connecting" => ENABLED RunConnectError
          /\ runPc # "closed")
  /\ [][(~ctxCancelled /\ runPc' # runPc) =>
          \/ runPc = "loop" /\ runPc' = "connecting"
          \/ runPc = "connecting" /\ runPc' \in {"streaming", "backoff"}
          \/ runPc = "streaming" /\ runPc' = "backoff"
               /\ (stream[gen].state # "up" \/ stream[gen].errCh > 0)
          \/ runPc = "backoff" /\ runPc' = "loop"
       ]_vars

\* C23 witness: not stopped, the first stream has failed and the run-loop,
\* back from its backoff, has a second stream
C23_Witness ==
  /\ ~ctxCancelled /\ gen = 2 /\ runPc = "streaming"
  /\ stream[1].state # "up" /\ stream[2].state = "up"

\* C24: once Stop is called on the state client, the run-loop reaches the
\* closed state from whichever state it is in, Stop returns, and no
\* connection attempt is made afterwards.  With the context cancelled: the
\* run-loop, unless closed, has a step to take and each of its steps
\* brings it nearer to closed; no attempt is begun and no stream is
\* established; and Stop, waiting on a closed run-loop, can return.
RunRank ==
  CASE runPc = "closed" -> 0
    [] runPc = "loop" -> 1
    [] runPc = "backoff" -> 2
    [] runPc = "streaming" -> 3
    [] runPc = "connecting" -> 3
    [] OTHER -> 4
C24_StopClosesTheRunLoop ==
  /\ [](ctxCancelled =>
          /\ stopPc # "none"
          /\ runPc # "closed" =>
               ENABLED (RunLoopCancelled \/ RunConnectError \/ RunStreamCancelled
                        \/ RunBackoffCancelled)
          /\ (runPc = "closed" /\ stopPc = "waiting") => ENABLED StopReturn
          /\ stopPc = "returned" => runPc = "closed")
  /\ [][ctxCancelled =>
          /\ gen' = gen
          /\ runPc' # runPc => RunRank' < RunRank /\ runPc' # "connecting"
       ]_vars

\* C24 witness: Stop was called while a stream was up, and has returned
C24_Witness ==
  /\ stopPc = "returned" /\ runPc = "closed"
  /\ gen > 0 /\ stream[gen].state = "up"

\* C25: EvictBefore(s) removes exactly the seeds strictly less than s:
\* immediately afterwards GetSeed(s') is empty for every s' < s, and for
\* every s' >= s GetSeed(s') returns the same buckets with the same values
\* as before the call (and a seed that was absent is still absent).
C25_EvictBeforeRemovesExactlyBelow ==
  [][(nOps' # nOps /\ call'.op = "EvictBefore") =>
       \A s \in Seeds :
         IF s < call'.seed
         THEN /\ s \notin DOMAIN buckets'
              /\ GetSeedResults(buckets', s) = {<<>>}
         ELSE /\ (s \in DOMAIN buckets') = (s \in DOMAIN buckets)
              /\ GetSeedResults(buckets', s) = GetSeedResults(buckets, s)
    ]_vars

\* C25 witness: deltas were applied under seeds 0 and 1, then EvictBefore(1)
\* was called: seed 0 is gone and seed 1 still has its bucket
C25_Witness ==
  /\ call.op = "EvictBefore" /\ call.seed = 1 /\ nOps = 3
  /\ lastRetTs[<<0, 0, 0>>] # <<>> /\ lastRetTs[<<1, 0, 0>>] # <<>>
  /\ 0 \notin DOMAIN buckets
  /\ HasBucket(buckets, 1, 0, 0)

\* C26: EvictBefore is idempotent: for every store state and every s,
\* calling EvictBefore(s) twice in a row leaves the store in the same state
\* as calling it once.  In every state the store reaches, evicting twice
\* gives the map that evicting once gives; and an EvictBefore(s) that
\* follows an EvictBefore(s) leaves the store as it is.
C26_EvictBeforeIdempotent ==
  /\ [](\A s \in 0..(MaxSeed + 1) :
          EvictedMap(EvictedMap(buckets, s), s) = EvictedMap(buckets, s))
  /\ [][(nOps' # nOps /\ call.op = "EvictBefore" /\ call'.op = "EvictBefore"
          /\ call'.seed = call.seed) => buckets' = buckets]_vars

\* C26 witness: a store holding seeds 0 and 1, where EvictBefore(2) has two
\* seeds to remove and EvictBefore(1) removes one and keeps one
C26_Witness ==
  /\ HasBucket(buckets, 0, 0, 1) /\ HasBucket(buckets, 1, 0, 1)
  /\ EvictedMap(buckets, 2) = EmptyMap
  /\ EvictedMap(buckets, 1) # buckets /\ EvictedMap(buckets, 1) # EmptyMap
  /\ call.op = "ApplyDelta"

\* C27: GetSeed(seed) returns exactly one bucket per distinct (row, col)
\* that has received a delta under that seed since the seed was last
\* evicted, each with its current probability and timestamp; it returns an
\* empty result and no error for a seed that is absent; and it never
\* changes the store.  The (row, col) stored under a seed are those that
\* received a delta since its last eviction: an ApplyDelta adds its own key
\* and no other, an eviction removes the keys of the seeds below its
\* cutoff and no other; and GetSeed returns a slice with one entry for each
\* stored key, equal to the stored bucket, and leaves the map as it was.
KeysUnder(b, seed) == {rc \in Rows \X Cols : HasBucket(b, seed, rc[1], rc[2])}
C27_GetSeedSnapshotsTheSeed ==
  [][nOps' # nOps =>
       /\ call'.op = "GetSeed" =>
            LET q == call'.buckets
                K == KeysUnder(buckets, call'.seed)
            IN /\ buckets' = buckets
               /\ Len(q) = Cardinality(K)
               /\ \A rc \in K : \E i \in 1..Len(q) :
                    /\ q[i].RowId = rc[1] /\ q[i].ColId = rc[2]
                    /\ q[i] = buckets[call'.seed][rc[1]][rc[2]]
               /\ call'.seed \notin DOMAIN buckets => q = <<>>
       /\ call'.op = "ApplyDelta" =>
            \A k \in Keys :
              HasBucket(buckets', k[1], k[2], k[3]) <=>
                \/ HasBucket(buckets, k[1], k[2], k[3])
                \/ k = <<call'.seed, call'.row, call'.col>>
       /\ call'.op \in {"EvictBefore", "runEviction"} =>
            \A k \in Keys :
              HasBucket(buckets', k[1], k[2], k[3]) <=>
                (HasBucket(buckets, k[1], k[2], k[3]) /\ k[1] >= call'.seed)
    ]_vars

\* C27 witness: (1, 0, 0) received a delta, seed 1 was evicted, (1, 0, 1)
\* received a delta, and GetSeed(1) returned the one bucket of column 1
C27_Witness ==
  /\ call.op = "GetSeed" /\ call.seed = 1 /\ nOps = 4
  /\ lastRetTs[<<1, 0, 0>>] # <<>> /\ lastRetTs[<<1, 0, 1>>] # <<>>
  /\ Len(call.buckets) = 1 /\ call.buckets[1].ColId = 1
  /\ call.buckets[1].LastUpdateTimeMs = MaxTs

\* C28: eviction of a seed is atomic with respect to readers: a GetSeed
\* running concurrently with EvictBefore and ApplyDelta returns, for that
\* seed, either every bucket present at one instant or none, never a
\* partially removed subtree.  The instant is the one at which GetSeed got
\* the read lock: while it is inside the lock the map stays as it was at
\* that instant, and the slice it returns holds each bucket that was under
\* the seed at that instant, once, and nothing else (nothing when the seed
\* was absent); and an EvictBefore leaves, when it returns, the map it
\* found at its lock with every seed below its argument removed.
C28_EvictionAtomicForReaders ==
  /\ [](\A g \in Goroutines :
          (stCall[g].op = "GetSeed" /\ stCall[g].pc \in {"body", "range"}) =>
            buckets = stCall[g].held)
  /\ [][\A g \in Goroutines :
          (stCall[g].pc # "idle" /\ stCall'[g].pc = "idle") =>
            /\ stCall[g].op = "GetSeed" =>
                 LET q == call'.buckets
                     S == SeedBuckets(stCall[g].held, stCall[g].seed)
                 IN /\ Len(q) = Cardinality(S)
                    /\ {q[i] : i \in 1..Len(q)} = S
            /\ stCall[g].op = "EvictBefore" =>
                 buckets' = EvictedMap(stCall[g].held, stCall[g].seed)
       ]_vars

\* C28 witness: a GetSeed has collected the two buckets of its seed while
\* an EvictBefore that removes the seed waits for the lock
C28_Witness ==
  \E g \in Goroutines : \E h \in Goroutines \ {g} :
    /\ stCall[g].op = "GetSeed" /\ stCall[g].pc = "range" /\ stCall[g].todo = {}
    /\ Len(stCall[g].result) = 2
    /\ stCall[h].op = "EvictBefore" /\ stCall[h].pc = "Lock"
    /\ stCall[h].seed > stCall[g].seed

\* The bucket store r holds at the key
ReplicaBucket(r) ==
  replica.st[r].buckets[replica.key[1]][replica.key[2]][replica.key[3]]
AllApplied(r) == replica.deltas # <<>> /\ replica.st[r].applied = DOMAIN replica.deltas

\* C29: delta aggregation is commutative: for any set of deltas addressed
\* to one (seed, row, col), the stored probability and timestamp after
\* applying all of them with ApplyDelta do not depend on the order in which
\* they are applied: two stores that have applied the same deltas hold the
\* same bucket.
C29_DeltasCommute ==
  (AllApplied("a") /\ AllApplied("b")) => ReplicaBucket("a") = ReplicaBucket("b")

\* C29, amended: two stores that have applied the same deltas hold the same
\* timestamp, and hold the same probability when the clamp has cut none of
\* the sums in either of them.
C29_DeltasCommuteUnlessClamped ==
  (AllApplied("a") /\ AllApplied("b")) =>
    /\ ReplicaBucket("a").LastUpdateTimeMs = ReplicaBucket("b").LastUpdateTimeMs
    /\ (~replica.st["a"].cut /\ ~replica.st["b"].cut) =>
         ReplicaBucket("a") = ReplicaBucket("b")

\* C29 witness: three deltas, two up and one down, applied in two different
\* orders without a clamp, the later timestamp first in one store and last
\* in the other
C29_Witness ==
  /\ AllApplied("a") /\ AllApplied("b")
  /\ replica.deltas = <<<<Num(1), MaxTs>>, <<Num(0 - 1), 0>>, <<Num(1), 0>>>>
  /\ ~replica.st["a"].cut /\ ~replica.st["b"].cut
  /\ ReplicaBucket("a").Prob = Num(1)
  /\ ReplicaBucket("a").LastUpdateTimeMs = MaxTs

\* C30: a report whose outcome string is neither "success" nor "failure"
\* is rejected with ErrInvalidOutcome (HTTP 400) without calling the
\* tracker: no bucket of main or secondary changes and no delta is emitted;
\* "success" and "failure" are accepted and forwarded to ReportOutcome.
\* For the requests that reach Report (POST, with a client_id): one with
\* another outcome string is answered 400 with ErrInvalidOutcome, in a step
\* that leaves the tracker, its structures and its outbound queue as they
\* are; one with "success" or "failure" begins a ReportOutcome call on the
\* tracker with OutcomeSuccess or OutcomeFailure, and is answered 200 when
\* that call has returned.
ReachesReport(r) == r.pc # "idle" /\ r.method = "POST" /\ r.clientID # ""
C30_InvalidOutcomeRejected ==
  /\ [](\A m \in MutatorIds :
          ReachesReport(httpReq[m]) =>
            IF httpReq[m].outcome \in {"success", "failure"}
            THEN /\ httpReq[m].err = "nil"
                 /\ httpReq[m].arg = IF httpReq[m].outcome = "success"
                                     THEN "OutcomeSuccess" ELSE "OutcomeFailure"
                 /\ httpReq[m].pc = "called" => mut[m].op \in {"ReportOutcome", "none"}
                 /\ httpReq[m].pc = "done" => httpReq[m].status = "200"
            ELSE /\ httpReq[m].pc = "done" /\ httpReq[m].status = "400"
                 /\ httpReq[m].err = "ErrInvalidOutcome" /\ httpReq[m].arg = "none")
  /\ [][\A m \in MutatorIds :
          (httpReq'[m] # httpReq[m] /\ ReachesReport(httpReq'[m])) =>
            IF httpReq'[m].outcome \in {"success", "failure"}
            THEN \/ /\ httpReq'[m].pc = "called"
                    /\ mut'[m].op = "ReportOutcome" /\ mut'[m].pc = "main"
                    /\ nCall' = nCall + 1
                 \/ /\ httpReq[m].pc = "called" /\ httpReq'[m].pc = "done"
                    /\ mut[m].pc = "idle"
                    /\ rotationVars' = rotationVars
            ELSE rotationVars' = rotationVars /\ fabricVars' = fabricVars
       ]_vars

\* C30 witness: one handler has rejected "unknown" with 400, the other has
\* answered 200 to a "failure" that was reported to both structures
C30_Witness ==
  \E m \in MutatorIds : \E n \in MutatorIds \ {m} :
    /\ httpReq[m].pc = "done" /\ httpReq[m].outcome = "unknown"
    /\ httpReq[m].method = "POST" /\ httpReq[m].clientID = "x"
    /\ httpReq[m].status = "400"
    /\ httpReq[n].pc = "done" /\ httpReq[n].outcome = "failure"
    /\ httpReq[n].status = "200"
    /\ nCall = 1 /\ mainStructure.calls = {1} /\ secondaryStructure.calls = {1}

\* the buckets of the identifier in tracker t's main structure have
\* received no failure: each holds probability 0
NoFailureBuckets(t) ==
  \A row \in Rows : structs[t][<<main, row, Column(main, row)>>] = FZero

Quiescent ==
  /\ register = {} /\ broadcast = {} /\ hubPc = "select"
  /\ \A c \in ClientIds :
       /\ inbound[c] = <<>> /\ req[c].deltas = <<>>
       /\ syncPc[c] # "registering"
       /\ Send[c].q = <<>>

\* C32: after quiescence with no client dropped, the last value each
\* connected client received for a bucket is the store's value of the bucket
C32_LastBroadcastIsStoreValue ==
  (Quiescent /\ dropped = {}) =>
    \A c \in clients : \A k \in DOMAIN lastRecv[c] :
      /\ HasBucket(buckets, k[1], k[2], k[3])
      /\ lastRecv[c][k] = buckets[k[1]][k[2]][k[3]]

\* bucket a is an older value of the bucket than b: the store adds
\* non-negative deltas here and keeps the largest timestamp, so the older
\* value is the one that is nowhere larger and not the same
OlderBucket(a, b) ==
  /\ a.RowId = b.RowId /\ a.ColId = b.ColId /\ a # b
  /\ ~FLt(b.Prob, a.Prob) /\ a.LastUpdateTimeMs <= b.LastUpdateTimeMs

\* C33: a full-state reply placed on a client's outbound queue carries, for
\* no bucket, a value older than that of a message for the same seed that is
\* on the queue before it
C33_ReplyNotOlderThanQueued ==
  [][\A c \in ClientIds :
       (syncPc[c] = "reply" /\ syncPc'[c] = "recv" /\ Send'[c].q = Append(Send[c].q, resp[c])) =>
         \A i \in DOMAIN Send[c].q : \A j \in DOMAIN Send[c].q[i].buckets :
           \A n \in DOMAIN resp[c].buckets :
             Send[c].q[i].seed = resp[c].seed =>
               ~OlderBucket(resp[c].buckets[n], Send[c].q[i].buckets[j])
    ]_vars

\* the seeds whose full state the tracker asked for when it was built
RequestedAtConstruction == {currentSeed(0), nextSeed(0)}

\* C34: a response for a seed requested during a rotation never reaches
\* the update callback while the seed is neither main's nor secondary's
C34_RotationReplyNotDiscarded ==
  [][(incoming # NoResp /\ incoming' = NoResp
        /\ incoming.seed \notin RequestedAtConstruction) =>
       incoming.seed \in {main, secondary}
    ]_vars

\* C35: the only sender goroutine that may take from the state client's
\* outbound queue is the one of the current stream, and every request that
\* leaves the queue is taken by the sender of the current stream
C35_OnlyCurrentSenderConsumes ==
  /\ [](\A g \in StreamIds : stream[g].sender = "run" => g = gen)
  /\ [][\A g \in StreamIds :
          (Len(sendCh'[1]) < Len(sendCh[1]) /\ stream'[g] # stream[g]) => g = gen
       ]_vars

\* C36: an eviction sweep run at time now removes exactly the seeds below
\* floor((now - TTL) / window), and never the seed of now's window or a
\* later one
C36_SweepRemovesExactlyExpired ==
  [][(call' # call /\ call'.op = "runEviction") =>
       LET t == call'.timestampMs
           removed == (DOMAIN buckets) \ (DOMAIN buckets')
       IN /\ removed = {s \in DOMAIN buckets : s < (t - EvictionTTLMs) \div WindowMs}
          /\ \A s \in removed : s < t \div WindowMs
          /\ \A s \in DOMAIN buckets' : s \in DOMAIN buckets /\ buckets'[s] = buckets[s]
    ]_vars

\* C37: the buckets ApplyDelta and GetSeed return are copies: a step that
\* changes the store changes no response that was built before it, be it on
\* an outbound queue, in the hands of the hub or of a Broadcast call, or the
\* full-state reply a handler is about to send; so a queued response reaches
\* the client with the probability and timestamp it was created with
C37_QueuedResponsesAreCopies ==
  [][buckets' # buckets =>
       /\ \A c \in ClientIds : Send'[c].q = Send[c].q /\ resp'[c] = resp[c]
       /\ message' = message
       /\ broadcast \subseteq broadcast'
    ]_vars

\* C37 witness: a response on a client's outbound queue carries, for a
\* bucket, the value it was created with, and the store's bucket has since
\* been changed by a later ApplyDelta
C37_Witness ==
  \E c \in ClientIds : \E i \in DOMAIN Send[c].q : \E j \in DOMAIN Send[c].q[i].buckets :
    LET msg == Send[c].q[i]
        b == msg.buckets[j]
    IN /\ HasBucket(buckets, msg.seed, b.RowId, b.ColId)
       /\ buckets[msg.seed][b.RowId][b.ColId].Prob # b.Prob
       /\ buckets[msg.seed][b.RowId][b.ColId].LastUpdateTimeMs # b.LastUpdateTimeMs

\* the shutdown has gone as far as the service takes it by itself: the
\* process has exited, or GracefulStop waits and no task of the service has
\* a step to take
ShutdownSettled ==
  \/ svcStop = "exited"
  \/ svcStop = "stopping" /\ Running /\ ~ENABLED ServiceStep

\* C38: when the service has shut down, the hub has closed the outbound
\* queue of every client that was registered and the hub loop has terminated
C38_ShutdownClosesQueuesAndHub ==
  ShutdownSettled =>
    /\ clients = {}
    /\ \A c \in ClientIds : Send[c].made => Send[c].closed
    /\ hubPc = "stopped"

\* C39: once Close has returned, the rotation goroutine swaps main and
\* secondary no more, and the state client's run-loop (when there is a
\* state client) has stopped
C39_NoSwapAfterClose ==
  /\ [](stopRotation = "closed" => runPc \in {"none", "closed"})
  /\ [][stopRotation = "closed" =>
          /\ ~(rotPc = "lock" /\ rotPc' = "select")
          /\ main' = main /\ secondary' = secondary
       ]_vars
====
